---- MODULE Spec2Model ----
(***************************************************************************)
(* A model of SaleaeSocketTransportHLA: the newline-delimited JSON bridge  *)
(* between the Saleae analyzers (saleaesocketsource.py, socketserver.py)   *)
(* and the external decoding process (socketclient.py, socketsink.py,      *)
(* responsehandler.py).                                                    *)
(*                                                                         *)
(* Representation of Python values                                         *)
(*   bytes  : a sequence of byte units.  A unit is [b |-> n], one byte of  *)
(*            value n, or [doc |-> v, sep |-> s], the run of ASCII bytes   *)
(*            that spells the JSON document v with separator style s (a    *)
(*            document is never split by the model and holds no newline).  *)
(*   str    : a sequence of character units, [ch |-> n] (code point n) or  *)
(*            the same document units.                                     *)
(*   dict   : a function from string keys to values; None is Null.         *)
(*   a call : [exc |-> name of the exception raised, "" for none,          *)
(*             val |-> the value returned].                                *)
(***************************************************************************)
EXTENDS Integers, Sequences, FiniteSets, TLC

VARIABLES
    stream,            \* the text the peer sends on the connection (fixed per behaviour)
    wire,              \* bytes the peer has not sent yet
    conn_buf,          \* bytes that arrived on the socket and were not read yet
    rx_pc,             \* position inside rx_data_until_newline: "idle", "loop", "raised"
    accumulator,       \* rx_data_until_newline's local list of strings
    data_accumulator,  \* the caller's residual, handed to the next call
    delivered,         \* every message list returned so far, concatenated
    handler_class,     \* the class of the handler object
    handler,           \* the handler object's fields
    op,                \* the handler method called last, "" before the first call
    arg,               \* the argument of that call
    ret,               \* what that call returned or raised
    applied,           \* the decoder that call looked up and applied, "" if none
    program,           \* the server program running: "socketclient", "socketsink"
    pc,                \* where the server's only thread is
    conn,              \* the accepted socket: "none", "open", "closed"
    peer,              \* what the remote end of the connection has done
    elapsed,           \* time.time() - start_time, in seconds, inside a read with a timeout
    pending,           \* the packets of `data` the listener has not handled yet
    outbox,            \* the replies sent on the current connection
    sessions,          \* connections made so far
    check_for_response,\* the analyzer's setting: does decode wait for a response
    missed_packets,    \* the analyzer's self.missed_packets
    response,          \* decode's local `response` once the read has returned
    send_result        \* what the last socket_send_json did with its message

readerVars == <<stream, wire, conn_buf, rx_pc, accumulator, data_accumulator, delivered>>

handlerVars == <<handler_class, handler, op, arg, ret, applied>>

serverVars == <<program, pc, conn, peer, elapsed, pending, outbox, sessions>>

producerVars == <<check_for_response, missed_packets, response, send_result>>

vars == <<readerVars, handlerVars, serverVars, producerVars>>

----------------------------------------------------------------------------
(* Bounds of the model *)

\* longest text (in characters) a peer of the frame reader sends
MaxStreamLen == 5
\* most frames a peer sends on one connection
MaxPeerStreamLen == 2
\* most connections made
MaxSessions == 2
\* most frames an analyzer sends on one connection
MaxFrames == 2
\* most bytes that arrive on the socket in one piece
MaxChunk == 3
\* largest first element of data.data in the async-serial frames tried
MaxDataByte == 256

(* Program constants *)

\* rx_data_until_newline(conn, current_accumulator=None, timeout=1.0): seconds
timeout == 1
\* conn.recv(2048)
RecvBufSize == 2048

----------------------------------------------------------------------------
(* Units of bytes and text *)

Null == [null |-> TRUE]

\* None where a str is expected, and None where a list of str is expected: values
\* apart from every str and every list of str
NoneStr == <<Null>>

NoneList == <<NoneStr>>

B(n) == [b |-> n]

Ch(n) == [ch |-> n]

\* '\n'
NL == Ch(10)

IsDoc(u) == "doc" \in DOMAIN u

IsByte(u) == "b" \in DOMAIN u

IsChar(u) == "ch" \in DOMAIN u

\* Python's s[i:j] for 0 <= i, with j counted from 0 (half-open)
Slice(s, i, j) == SubSeq(s, i + 1, j)

\* the sequence s without its last element: s[0:-1]
AllButLast(s) == SubSeq(s, 1, Len(s) - 1)

\* s[-1]
Last(s) == s[Len(s)]

----------------------------------------------------------------------------
(* UTF-8, for code points below 0x800 (one- and two-byte forms) *)

\* str.encode('utf-8') of one character unit
utf8_encode_char(u) ==
    IF IsDoc(u) THEN <<u>>
    ELSE IF u.ch < 128 THEN <<B(u.ch)>>
    ELSE <<B(192 + (u.ch \div 64)), B(128 + (u.ch % 64))>>

RECURSIVE utf8_encode(_)
utf8_encode(text) ==
    IF text = <<>> THEN <<>>
    ELSE utf8_encode_char(Head(text)) \o utf8_encode(Tail(text))

\* the decoded text of a byte string: character u, then what the rest gives
decoded_after(u, r) == [ok |-> r.ok, text |-> <<u>> \o r.text]

\* bytes.decode('utf-8'): [ok |-> FALSE] is UnicodeDecodeError.  A lead byte
\* needs its continuation byte inside the same byte string.
RECURSIVE utf8_decode(_)
utf8_decode(bs) ==
    IF bs = <<>> THEN [ok |-> TRUE, text |-> <<>>]
    ELSE IF IsDoc(Head(bs)) THEN decoded_after(Head(bs), utf8_decode(Tail(bs)))
    ELSE IF Head(bs).b < 128 THEN decoded_after(Ch(Head(bs).b), utf8_decode(Tail(bs)))
    ELSE IF /\ Head(bs).b >= 194 /\ Head(bs).b <= 223
            /\ Len(bs) >= 2
            /\ IsByte(bs[2]) /\ bs[2].b >= 128 /\ bs[2].b <= 191
    THEN decoded_after(Ch((Head(bs).b - 192) * 64 + (bs[2].b - 128)),
                       utf8_decode(Tail(Tail(bs))))
    ELSE [ok |-> FALSE, text |-> <<>>]

----------------------------------------------------------------------------
(* str operations used by the frame reader *)

\* '\n' in data
HasNewline(data) == \E i \in 1..Len(data) : data[i] = NL

\* index of the first '\n' of data (data holds one)
FirstNewline(data) == CHOOSE i \in 1..Len(data) :
    data[i] = NL /\ \A j \in 1..(i - 1) : data[j] # NL

\* data.split('\n'): a list of strings, one more than there are newlines
RECURSIVE split(_)
split(data) ==
    IF ~HasNewline(data) THEN <<data>>
    ELSE LET i == FirstNewline(data) IN
         <<SubSeq(data, 1, i - 1)>> \o split(SubSeq(data, i + 1, Len(data)))

----------------------------------------------------------------------------
(* JSON text.  A document unit stands for the characters json.dumps writes  *)
(* for a value ("default" separators ', ' and ': ') or that a peer writes    *)
(* for it without the spaces ("compact").                                    *)

Doc(v, sep) == [doc |-> v, sep |-> sep]

\* JSON whitespace: space, tab, line feed, carriage return
IsSpace(u) == IsChar(u) /\ u.ch \in {32, 9, 10, 13}

RECURSIVE lstrip(_)
lstrip(text) ==
    IF text # <<>> /\ IsSpace(Head(text)) THEN lstrip(Tail(text)) ELSE text

RECURSIVE rstrip(_)
rstrip(text) ==
    IF text # <<>> /\ IsSpace(Last(text)) THEN rstrip(AllButLast(text)) ELSE text

\* json.dumps(obj)
json_dumps(obj) == <<Doc(obj, "default")>>

\* json.loads(s): whitespace around the document is skipped; anything but one
\* whole document raises JSONDecodeError
json_loads(s) ==
    LET core == rstrip(lstrip(s)) IN
    IF Len(core) = 1 /\ IsDoc(core[1])
    THEN [exc |-> "", val |-> core[1].doc]
    ELSE [exc |-> "JSONDecodeError", val |-> Null]

\* dict item assignment d[k] = v
SetItem(d, k, v) == (k :> v) @@ d

----------------------------------------------------------------------------
(* "0x{:02X}".format(n) for an int n *)

\* one uppercase hexadecimal digit
HexDigit(n) == Ch(IF n < 10 THEN 48 + n ELSE 55 + n)

RECURSIVE HexDigits(_)
HexDigits(n) ==
    IF n < 16 THEN <<HexDigit(n)>>
    ELSE HexDigits(n \div 16) \o <<HexDigit(n % 16)>>

\* a variant: format spec X, no padding to a width of two
format_X(n) == IF n >= 0 THEN HexDigits(n) ELSE <<Ch(45)>> \o HexDigits(-n)

\* format spec 02X: uppercase hexadecimal, zero-padded to a width of two, the
\* sign counted in the width
format_02X(n) ==
    IF n >= 0
    THEN LET ds == HexDigits(n) IN IF Len(ds) < 2 THEN <<Ch(48)>> \o ds ELSE ds
    ELSE <<Ch(45)>> \o HexDigits(-n)

\* "0x{:02X}".format(n)
format_0x02X(n) == <<Ch(48), Ch(120)>> \o format_02X(n)

----------------------------------------------------------------------------
(* responsehandler.py: TransportData *)

\* Python values, tagged with their type: a record with one field, named for
\* the type
PyBytes(bs) == [bytes |-> bs]

PyStr(text) == [str |-> text]

PyDict(d) == [dict |-> d]

PyTransportData(td) == [TransportData |-> td]

PyInt(n) == [int |-> n]

PyList(l) == [list |-> l]

\* isinstance(x, t)
IsInstance(x, t) == t \in DOMAIN x

TransportData(bs, d, text) == [as_bytes |-> bs, as_dict |-> d, as_str |-> text]

Returns(x) == [exc |-> "", val |-> x]

Raises(e) == [exc |-> e, val |-> Null]

from_bytes(data) ==
    LET as_str == utf8_decode(data) IN
    IF ~as_str.ok THEN Raises("UnicodeDecodeError")
    ELSE LET as_dict == json_loads(as_str.text) IN
         IF as_dict.exc # "" THEN Raises(as_dict.exc)
         ELSE Returns(TransportData(data, as_dict.val, as_str.text))

from_dict(data) ==
    LET as_str == json_dumps(data) IN
    Returns(TransportData(utf8_encode(as_str), data, as_str))

from_str(data) ==
    LET as_dict == json_loads(data) IN
    IF as_dict.exc # "" THEN Raises(as_dict.exc)
    ELSE Returns(TransportData(utf8_encode(data), as_dict.val, data))

from_any(data) ==
    IF IsInstance(data, "bytes") THEN from_bytes(data.bytes)
    ELSE IF IsInstance(data, "dict") THEN from_dict(data.dict)
    ELSE IF IsInstance(data, "str") THEN from_str(data.str)
    ELSE Raises("TypeError")

----------------------------------------------------------------------------
(* responsehandler.py: ResponseHandler and DefaultResponder.  `self` is the *)
(* record of the handler's fields; an operation gives the fields after the *)
(* call (self), what it returned or raised (ret) and, for a dispatch, the  *)
(* decoder it applied.                                                     *)

\* ResponseHandler.__init__
BaseHandler_init ==
    [tracking_frame |-> Null, previous_data |-> <<>>,
     current_incoming |-> Null, current_outgoing |-> Null]

\* DefaultResponder.__init__: super().__init__(), then analyzer_type = None
\* (decode_map never changes: decode_map_get reads it)
DefaultResponder_init == ("analyzer_type" :> "None") @@ BaseHandler_init

\* if not isinstance(data, TransportData): data = TransportData.from_any(data)
as_transport_data(data) ==
    IF IsInstance(data, "TransportData") THEN Returns(data.TransportData)
    ELSE from_any(data)

\* self.current_incoming = data; return data.as_dict
store_incoming(self, td) ==
    IF td.exc # "" THEN [self |-> self, ret |-> td]
    ELSE [self |-> [self EXCEPT !.current_incoming = td.val],
          ret |-> Returns(td.val.as_dict)]

prepare_json_incoming(self, data) == store_incoming(self, as_transport_data(data))

\* the bytes returned: (data.as_str + '\n').encode('utf-8')
outgoing_bytes(td) == utf8_encode(td.as_str \o <<NL>>)

\* self.current_outgoing = data; return (data.as_str + '\n').encode('utf-8')
store_outgoing(self, td) ==
    IF td.exc # "" THEN [self |-> self, ret |-> [exc |-> td.exc, val |-> <<>>]]
    ELSE [self |-> [self EXCEPT !.current_outgoing = td.val],
          ret |-> Returns(outgoing_bytes(td.val))]

prepare_json_outgoing(self, data) == store_outgoing(self, as_transport_data(data))

\* decode_async_serial works on the dict in place: val is the dict as the call
\* leaves it, also when it raises after the first assignment
\* decoded['data']['text'] = "0x{:02X}".format(decoded['data']['data'][0]), on the
\* dict d1 that already has frame-type 'text'
set_data_text(d1) ==
    IF "data" \notin DOMAIN d1 THEN [exc |-> "KeyError", val |-> d1]
    ELSE IF d1["data"] = Null THEN [exc |-> "TypeError", val |-> d1]
    ELSE IF "data" \notin DOMAIN d1["data"] THEN [exc |-> "KeyError", val |-> d1]
    ELSE IF d1["data"]["data"] = <<>> THEN [exc |-> "IndexError", val |-> d1]
    ELSE [exc |-> "",
          val |-> SetItem(d1, "data",
                     SetItem(d1["data"], "text", format_0x02X(d1["data"]["data"][1])))]

decode_async_serial(decoded) == set_data_text(SetItem(decoded, "frame-type", "text"))

\* a variant of the classifier: a 'data' frame is async-serial, 'ack' or not
determine_without_ack(decoded) ==
    IF "type" \notin DOMAIN decoded THEN Raises("KeyError")
    ELSE IF decoded["type"] # "frame" THEN Returns("None")
    ELSE IF "frame-type" \notin DOMAIN decoded THEN Raises("KeyError")
    ELSE IF "data" \notin DOMAIN decoded THEN Raises("KeyError")
    ELSE IF decoded["data"] = Null THEN Returns("None")
    ELSE IF decoded["frame-type"] = "data" THEN Returns("async-serial")
    ELSE IF decoded["frame-type"] \in {"address", "start", "stop"} THEN Returns("i2c")
    ELSE IF decoded["frame-type"] \in {"enable", "disable", "result", "error"}
    THEN Returns("spi")
    ELSE Returns("None")

determine_analyzer_type(decoded) ==
    IF "type" \notin DOMAIN decoded THEN Raises("KeyError")
    ELSE IF decoded["type"] # "frame" THEN Returns("None")
    ELSE IF "frame-type" \notin DOMAIN decoded THEN Raises("KeyError")
    ELSE IF "data" \notin DOMAIN decoded THEN Raises("KeyError")
    ELSE LET ft == decoded["frame-type"]
             data == decoded["data"]
         IN  IF data = Null THEN Returns("None")
             ELSE IF ft = "data"
                  THEN IF "ack" \notin DOMAIN data
                       THEN Returns("async-serial")
                       ELSE Returns("i2c")
             ELSE IF ft \in {"address", "start", "stop"} THEN Returns("i2c")
             ELSE IF ft \in {"enable", "disable", "result", "error"} THEN Returns("spi")
             ELSE Returns("None")

\* a variant: the type is assigned on every classified message
assign_analyzer_type(analyzer_type, determined_analyzer) == determined_analyzer

\* if self.analyzer_type is None: self.analyzer_type = determined_analyzer
set_analyzer_type(analyzer_type, determined_analyzer) ==
    IF analyzer_type = "None" THEN determined_analyzer ELSE analyzer_type

\* a variant: the async-serial decoder is registered for every type
decode_map_get_serial(analyzer_type) == "decode_async_serial"

\* self.decode_map.get(self.analyzer_type, self.prepare_json_outgoing)
decode_map_get(analyzer_type) ==
    IF analyzer_type = "async-serial" THEN "decode_async_serial"
    ELSE "prepare_json_outgoing"

\* an exception leaves the call: the fields as they are then, no reply
Escapes(self, e, decoder) ==
    [self |-> self, ret |-> [exc |-> e, val |-> <<>>], applied |-> decoder]

\* the call returns what the last prepare_json_outgoing returned
Replies(out, decoder) == [self |-> out.self, ret |-> out.ret, applied |-> decoder]

\* the dict bound to `decoded` is current_incoming.as_dict itself: what a
\* decoder writes into it shows there
WithDecoded(self, d) == [self EXCEPT !.current_incoming.as_dict = d]

\* return self.prepare_json_outgoing(json_response), json_response the decoder's dict
reply_decoded(self, json_response) ==
    IF json_response.exc # ""
    THEN Escapes(WithDecoded(self, json_response.val), json_response.exc,
                 "decode_async_serial")
    ELSE Replies(prepare_json_outgoing(WithDecoded(self, json_response.val),
                                       PyDict(json_response.val)),
                 "decode_async_serial")

\* return self.prepare_json_outgoing(json_response), json_response the bytes the
\* default of decode_map.get, prepare_json_outgoing, returned
reply_fallback(json_response) ==
    Replies(prepare_json_outgoing(json_response.self, PyBytes(json_response.ret.val)),
            "prepare_json_outgoing")

\* json_response = self.decode_map.get(...)(decoded), and the reply
dispatch_decoder(self, decoded) ==
    IF decode_map_get(self.analyzer_type) = "decode_async_serial"
    THEN reply_decoded(self, decode_async_serial(decoded))
    ELSE reply_fallback(prepare_json_outgoing(self, PyDict(decoded)))

\* a variant of the dispatch without the echo of an unclassified message
dispatch_without_echo(self, decoded, determined_analyzer) ==
    IF determined_analyzer.exc # "" THEN Escapes(self, determined_analyzer.exc, "")
    ELSE dispatch_decoder(self, decoded)

\* the echo of an unclassified message, or the sticky type and the dispatch
dispatch_determined(self, decoded, determined_analyzer) ==
    IF determined_analyzer.exc # "" THEN Escapes(self, determined_analyzer.exc, "")
    ELSE IF determined_analyzer.val = "None"
    THEN Replies(prepare_json_outgoing(self, PyDict(decoded)), "")
    ELSE dispatch_decoder(
             [self EXCEPT !.analyzer_type = set_analyzer_type(@, determined_analyzer.val)],
             decoded)

\* determined_analyzer = self.determine_analyzer_type(decoded)
dispatch_incoming(inc) ==
    IF inc.ret.exc # "" THEN Escapes(inc.self, inc.ret.exc, "")
    ELSE dispatch_determined(inc.self, inc.ret.val, determine_analyzer_type(inc.ret.val))

handle_incoming_response(self, recv) == dispatch_incoming(prepare_json_incoming(self, recv))

----------------------------------------------------------------------------
(* socketclient.py: ResponseHandler *)

ResponseHandler_init ==
    [analyzer_type |-> "None", tracking_frame |-> Null, previous_data |-> <<>>]

sc_determine_analyzer_type(decoded) ==
    IF "type" \notin DOMAIN decoded THEN Raises("KeyError")
    ELSE IF decoded["type"] # "frame" THEN Returns("None")
    ELSE IF "frame-type" \notin DOMAIN decoded THEN Raises("KeyError")
    ELSE IF "data" \notin DOMAIN decoded THEN Raises("KeyError")
    ELSE LET ft == decoded["frame-type"]
             data == decoded["data"]
         IN  IF data = Null THEN Returns("None")
             ELSE IF ft = "data"
                  THEN IF "ack" \notin DOMAIN data
                       THEN Returns("async-serial")
                       ELSE Returns("i2c")
             ELSE IF ft \in {"address", "start", "stop"} THEN Returns("i2c")
             ELSE IF ft \in {"enable", "disable", "result", "error"} THEN Returns("spi")
             ELSE Returns("None")

parse_incoming_json(input) == json_loads(input)

\* bytes pass through; anything else is dumped with one newline appended
prepare_json_for_response(output) ==
    IF IsInstance(output, "bytes") THEN output.bytes
    ELSE utf8_encode(json_dumps(output.dict) \o <<NL>>)

sc_set_data_text(d1) ==
    IF "data" \notin DOMAIN d1 THEN [exc |-> "KeyError", val |-> d1]
    ELSE IF d1["data"] = Null THEN [exc |-> "TypeError", val |-> d1]
    ELSE IF "data" \notin DOMAIN d1["data"] THEN [exc |-> "KeyError", val |-> d1]
    ELSE IF d1["data"]["data"] = <<>> THEN [exc |-> "IndexError", val |-> d1]
    ELSE [exc |-> "",
          val |-> SetItem(d1, "data",
                     SetItem(d1["data"], "text", format_0x02X(d1["data"]["data"][1])))]

sc_decode_async_serial(decoded) == sc_set_data_text(SetItem(decoded, "frame-type", "text"))

\* if self.analyzer_type is None: self.analyzer_type = determined_analyzer
sc_set_analyzer_type(analyzer_type, determined_analyzer) ==
    IF analyzer_type = "None" THEN determined_analyzer ELSE analyzer_type

\* self.decode_map.get(self.analyzer_type, self.prepare_json_for_response)
sc_decode_map_get(analyzer_type) ==
    IF analyzer_type = "async-serial" THEN "decode_async_serial"
    ELSE "prepare_json_for_response"

\* the reply made of a decoder's result
sc_reply(self, json_response, decoder) ==
    [self |-> self, ret |-> Returns(prepare_json_for_response(json_response)),
     applied |-> decoder]

sc_reply_decoded(self, json_response) ==
    IF json_response.exc # "" THEN Escapes(self, json_response.exc, "decode_async_serial")
    ELSE sc_reply(self, PyDict(json_response.val), "decode_async_serial")

\* json_response = self.decode_map.get(...)(decoded), and the reply
sc_dispatch_decoder(self, decoded) ==
    IF sc_decode_map_get(self.analyzer_type) = "decode_async_serial"
    THEN sc_reply_decoded(self, sc_decode_async_serial(decoded))
    ELSE sc_reply(self, PyBytes(prepare_json_for_response(PyDict(decoded))),
                  "prepare_json_for_response")

sc_dispatch_determined(self, decoded, determined_analyzer) ==
    IF determined_analyzer.exc # "" THEN Escapes(self, determined_analyzer.exc, "")
    ELSE IF determined_analyzer.val = "None"
    THEN sc_reply(self, PyDict(decoded), "")
    ELSE sc_dispatch_decoder(
             [self EXCEPT !.analyzer_type = sc_set_analyzer_type(@, determined_analyzer.val)],
             decoded)

sc_dispatch_parsed(self, decoded) ==
    IF decoded.exc # "" THEN Escapes(self, decoded.exc, "")
    ELSE sc_dispatch_determined(self, decoded.val, sc_determine_analyzer_type(decoded.val))

handle_response(self, recv) == sc_dispatch_parsed(self, parse_incoming_json(recv.str))

----------------------------------------------------------------------------
(* The messages and the call arguments the handlers are exercised with *)

Frame(ft, data) == ("type" :> "frame") @@ ("frame-type" :> ft) @@ ("data" :> data)

\* a JSON string in the place of a message's data
JString(s) == [jstr |-> s]

FrameTypes == {"data", "address", "start", "stop",
               "enable", "disable", "result", "error", "text", "other"}

DataShapes ==
    { Null,
      <<>>,
      [ack |-> TRUE],
      [data |-> <<65>>],
      [data |-> <<65>>, ack |-> TRUE],
      [data |-> <<10, 255>>],
      [data |-> <<>>],
      [address |-> <<80>>, read |-> FALSE, ack |-> TRUE] }

CoreFrames == {Frame(ft, d) : ft \in FrameTypes, d \in DataShapes}

\* async-serial data frames, one for every first byte of the range
SerialFrames == {Frame("data", [data |-> <<b>>]) : b \in 0..MaxDataByte}

ControlMessages ==
    { ("type" :> "client-notification") @@ ("data" :> JString("Connected to socket")),
      ("type" :> "client-control") @@ ("server-expects-response" :> TRUE),
      ("type" :> "ACK") }
    \cup {("type" :> "status") @@ ("frame-type" :> ft) @@ ("data" :> d) :
              ft \in {"data", "start", "enable"},
              d \in {[data |-> <<65>>], [ack |-> TRUE], Null}}

\* frames that lack a key
PartialFrames ==
    { ("type" :> "frame") @@ ("frame-type" :> "start"),
      ("type" :> "frame") @@ ("data" :> [data |-> <<65>>]),
      ("frame-type" :> "data") @@ ("data" :> [data |-> <<65>>]) }

Messages == CoreFrames \cup SerialFrames \cup ControlMessages \cup PartialFrames

\* the messages the stateful handlers are called with: every classification,
\* with and without the data.data array the async-serial decoder reads
SessionMessages ==
    {Frame(ft, d) : ft \in {"data", "address", "start", "enable", "other"},
                    d \in { Null, <<>>, [ack |-> TRUE], [data |-> <<65>>],
                            [data |-> <<65>>, ack |-> TRUE], [data |-> <<>>] }}
    \cup { ("type" :> "client-notification") @@ ("data" :> JString("Connected to socket")),
           ("type" :> "client-control") @@ ("server-expects-response" :> TRUE),
           ("type" :> "frame") @@ ("frame-type" :> "start") }

\* the messages tried in every representation
SampleMessages ==
    { Frame("data", [data |-> <<65>>]),
      Frame("start", <<>>),
      Frame("enable", <<>>),
      ("type" :> "ACK") }

\* the representations of one message a caller may hand over
Representations(d) ==
    { PyStr(<<Doc(d, "compact")>>),
      PyStr(json_dumps(d) \o <<NL>>),
      PyStr(<<Ch(32)>> \o json_dumps(d)),
      PyBytes(utf8_encode(json_dumps(d))),
      PyBytes(utf8_encode(json_dumps(d) \o <<NL>>)),
      PyDict(d),
      PyTransportData(from_dict(d).val),
      PyTransportData(from_str(json_dumps(d) \o <<NL>>).val) }

\* arguments no representation of a message: not JSON, not UTF-8, not a type
\* from_any knows (an int, a list)
BadArguments ==
    { PyStr(<<Ch(97)>>), PyStr(<<>>), PyBytes(<<B(195)>>), PyInt(5), PyList(<<65>>) }

\* what the session loop hands a handler: one str per message
Packets == {PyStr(json_dumps(d)) : d \in SessionMessages}

Arguments == UNION {Representations(d) : d \in SampleMessages} \cup BadArguments

----------------------------------------------------------------------------
(* rx_data_until_newline, the version without a timeout *)

\* accumulator = [current_accumulator] if it is not None, else [""]
rx_entry(current_accumulator) ==
    IF current_accumulator # NoneStr THEN <<current_accumulator>> ELSE << <<>> >>

\* a pass that, on a newline, starts the list afresh from the chunk
rx_pass_fresh(acc, data) ==
    IF ~HasNewline(data)
    THEN [acc |-> [acc EXCEPT ![1] = acc[1] \o data], brk |-> FALSE]
    ELSE [acc |-> split(data), brk |-> TRUE]

\* a pass that ends the call on every chunk, with what it has as a message
rx_pass_eager(acc, data) ==
    IF ~HasNewline(data)
    THEN [acc |-> <<acc[1] \o data, <<>> >>, brk |-> TRUE]
    ELSE [acc |-> [acc EXCEPT ![1] = acc[1] \o split(data)[1]] \o Tail(split(data)),
          brk |-> TRUE]

\* one pass of the while loop on the decoded chunk `data`:
\* the list after the pass, and whether the loop breaks
rx_pass(acc, data) ==
    IF ~HasNewline(data)
    THEN [acc |-> [acc EXCEPT ![1] = acc[1] \o data], brk |-> FALSE]
    ELSE LET split_data == split(data) IN
         [acc |-> [acc EXCEPT ![1] = acc[1] \o split_data[1]] \o Tail(split_data),
          brk |-> TRUE]

\* conn.recv(2048): what is there, at most 2048 bytes of it
recv_chunk(buf) == SubSeq(buf, 1, IF Len(buf) < RecvBufSize THEN Len(buf) ELSE RecvBufSize)

recv_rest(buf) == SubSeq(buf, Len(recv_chunk(buf)) + 1, Len(buf))

----------------------------------------------------------------------------
(* The frame reader driven the way decode() drives it: every call gets the *)
(* residual the previous call returned.                                    *)

\* texts of at most n characters over 'a', '\n' and the two-byte character U+00E9
RECURSIVE TextsUpTo(_)
TextsUpTo(n) ==
    IF n = 0 THEN {<<>>}
    ELSE LET shorter == TextsUpTo(n - 1) IN
         shorter \cup {<<c>> \o t : c \in {Ch(97), NL, Ch(233)},
                                    t \in {s \in shorter : Len(s) = n - 1}}

\* no analyzer runs
ProducerAtRest ==
    /\ check_for_response = FALSE
    /\ missed_packets = 0
    /\ response = NoneStr
    /\ send_result = ""

\* no handler is exercised
HandlerAtRest ==
    /\ handler_class = "none"
    /\ handler = Null
    /\ op = ""
    /\ arg = PyStr(<<>>)
    /\ ret = Returns(<<>>)
    /\ applied = ""

\* no server runs: the connection is there and stays, its peer only sends
ConnectionGiven ==
    /\ program = "none"
    /\ pc = "none"
    /\ conn = "open"
    /\ peer = "open"
    /\ elapsed = 0
    /\ pending = <<>>
    /\ outbox = <<>>
    /\ sessions = 1
    /\ ProducerAtRest

ReaderInit ==
    /\ HandlerAtRest
    /\ ConnectionGiven
    /\ stream \in TextsUpTo(MaxStreamLen)
    /\ wire = utf8_encode(stream)
    /\ conn_buf = <<>>
    /\ rx_pc = "idle"
    /\ accumulator = <<>>
    /\ data_accumulator = <<>>
    /\ delivered = <<>>

\* the network delivers the next k bytes of the peer's stream
peer_send ==
    \E k \in 1..MaxChunk :
        /\ peer = "open"
        /\ conn = "open"
        /\ k <= Len(wire)
        /\ conn_buf' = conn_buf \o SubSeq(wire, 1, k)
        /\ wire' = SubSeq(wire, k + 1, Len(wire))
        /\ UNCHANGED <<stream, rx_pc, accumulator, data_accumulator, delivered>>
        /\ UNCHANGED <<handlerVars, producerVars, program, pc, conn, peer, elapsed, pending, outbox, sessions>>

\* the caller enters rx_data_until_newline(conn, current_accumulator=data_accumulator)
rx_call ==
    /\ rx_pc = "idle"
    /\ accumulator' = rx_entry(data_accumulator)
    /\ rx_pc' = "loop"
    /\ UNCHANGED <<stream, wire, conn_buf, data_accumulator, delivered>>
    /\ UNCHANGED <<handlerVars, serverVars, producerVars>>

\* one pass of the loop: recv blocks until bytes are there; decode; append or
\* split; on a newline the call returns (accumulator[0:-1], accumulator[-1]) and the
\* caller stores the residual
rx_recv ==
    /\ rx_pc = "loop"
    /\ conn_buf # <<>>
    /\ conn_buf' = recv_rest(conn_buf)
    /\ \E d \in {utf8_decode(recv_chunk(conn_buf))} :
       IF ~d.ok
       THEN /\ rx_pc' = "raised"
            /\ UNCHANGED <<accumulator, data_accumulator, delivered>>
       ELSE \E p \in {rx_pass(accumulator, d.text)} :
            /\ accumulator' = p.acc
            /\ IF p.brk
               THEN /\ rx_pc' = "idle"
                    /\ delivered' = delivered \o AllButLast(p.acc)
                    /\ data_accumulator' = Last(p.acc)
               ELSE /\ rx_pc' = "loop"
                    /\ UNCHANGED <<data_accumulator, delivered>>
    /\ UNCHANGED <<stream, wire>>
    /\ UNCHANGED <<handlerVars, serverVars, producerVars>>

ReaderNext == peer_send \/ rx_call \/ rx_recv

SpecReader == ReaderInit /\ [][ReaderNext]_vars

----------------------------------------------------------------------------
(* A handler object and the calls made on it *)

\* no connection is modelled
ReaderAtRest ==
    /\ program = "none"
    /\ pc = "none"
    /\ conn = "none"
    /\ peer = "none"
    /\ elapsed = 0
    /\ pending = <<>>
    /\ outbox = <<>>
    /\ sessions = 0
    /\ ProducerAtRest
    /\ stream = <<>>
    /\ wire = <<>>
    /\ conn_buf = <<>>
    /\ rx_pc = "idle"
    /\ accumulator = <<>>
    /\ data_accumulator = <<>>
    /\ delivered = <<>>

HandlerClasses == {"DefaultResponder", "ResponseHandler", "socketclient.ResponseHandler"}

HandlerInit ==
    /\ ReaderAtRest
    /\ handler_class \in HandlerClasses
    /\ handler = CASE handler_class = "DefaultResponder" -> DefaultResponder_init
                   [] handler_class = "ResponseHandler" -> BaseHandler_init
                   [] OTHER -> ResponseHandler_init
    /\ op = ""
    /\ arg = PyStr(<<>>)
    /\ ret = Returns(<<>>)
    /\ applied = ""

\* the call `name` with argument r ends as c says: the fields, the result
Completes(c, r, name) ==
    /\ handler' = c.self
    /\ ret' = c.ret
    /\ applied' = c.applied
    /\ arg' = r
    /\ op' = name

\* DefaultResponder.handle_incoming_response(recv)
Call_handle_incoming_response ==
    /\ handler_class = "DefaultResponder"
    /\ \E r \in Packets \cup Arguments :
        Completes(handle_incoming_response(handler, r), r, "handle_incoming_response")
    /\ UNCHANGED <<handler_class, readerVars, serverVars, producerVars>>

\* socketclient's ResponseHandler.handle_response(recv), recv a str
Call_handle_response ==
    /\ handler_class = "socketclient.ResponseHandler"
    /\ \E r \in Packets \cup {a \in Arguments : IsInstance(a, "str")} :
        Completes(handle_response(handler, r), r, "handle_response")
    /\ UNCHANGED <<handler_class, readerVars, serverVars, producerVars>>

\* a subclass of ResponseHandler calls the helper prepare_json_incoming(data)
Call_prepare_json_incoming ==
    /\ handler_class = "ResponseHandler"
    /\ \E r \in Arguments :
        Completes(Replies(prepare_json_incoming(handler, r), ""), r, "prepare_json_incoming")
    /\ UNCHANGED <<handler_class, readerVars, serverVars, producerVars>>

\* a subclass of ResponseHandler calls the helper prepare_json_outgoing(data)
Call_prepare_json_outgoing ==
    /\ handler_class = "ResponseHandler"
    /\ \E r \in Arguments :
        Completes(Replies(prepare_json_outgoing(handler, r), ""), r, "prepare_json_outgoing")
    /\ UNCHANGED <<handler_class, readerVars, serverVars, producerVars>>

HandlerNext ==
    \/ Call_handle_incoming_response
    \/ Call_handle_response
    \/ Call_prepare_json_incoming
    \/ Call_prepare_json_outgoing

SpecHandler == HandlerInit /\ [][HandlerNext]_vars

----------------------------------------------------------------------------
(* The classifier, the decoder and the dispatch as functions: one call on   *)
(* a handler whose sticky type is any of the four, for every message        *)

AnalyzerTypes == {"None", "async-serial", "i2c", "spi"}

FunctionsInit ==
    /\ ReaderAtRest
    /\ handler_class \in {"DefaultResponder", "socketclient.ResponseHandler"}
    /\ \E t \in AnalyzerTypes :
        handler = IF handler_class = "DefaultResponder"
                  THEN [DefaultResponder_init EXCEPT !.analyzer_type = t]
                  ELSE [ResponseHandler_init EXCEPT !.analyzer_type = t]
    /\ op = ""
    /\ arg \in {PyStr(json_dumps(d)) : d \in Messages}
    /\ ret = Returns(<<>>)
    /\ applied = ""

\* the call `name` of a method that only computes: the fields stay
Computes(r, name) ==
    /\ ret' = r
    /\ op' = name
    /\ UNCHANGED <<handler, arg, applied>>

\* DefaultResponder.determine_analyzer_type(decoded), decoded the parsed message
Apply_determine_analyzer_type ==
    /\ op = ""
    /\ handler_class = "DefaultResponder"
    /\ Computes(determine_analyzer_type(json_loads(arg.str).val), "determine_analyzer_type")
    /\ UNCHANGED <<handler_class, readerVars, serverVars, producerVars>>

\* socketclient's ResponseHandler.determine_analyzer_type(decoded)
Apply_sc_determine_analyzer_type ==
    /\ op = ""
    /\ handler_class = "socketclient.ResponseHandler"
    /\ Computes(sc_determine_analyzer_type(json_loads(arg.str).val),
                "determine_analyzer_type")
    /\ UNCHANGED <<handler_class, readerVars, serverVars, producerVars>>

\* DefaultResponder.decode_async_serial(decoded)
Apply_decode_async_serial ==
    /\ op = ""
    /\ handler_class = "DefaultResponder"
    /\ Computes(decode_async_serial(json_loads(arg.str).val), "decode_async_serial")
    /\ UNCHANGED <<handler_class, readerVars, serverVars, producerVars>>

\* socketclient's ResponseHandler.decode_async_serial(decoded)
Apply_sc_decode_async_serial ==
    /\ op = ""
    /\ handler_class = "socketclient.ResponseHandler"
    /\ Computes(sc_decode_async_serial(json_loads(arg.str).val), "decode_async_serial")
    /\ UNCHANGED <<handler_class, readerVars, serverVars, producerVars>>

\* DefaultResponder.handle_incoming_response(recv), once
Apply_handle_incoming_response ==
    /\ op = ""
    /\ handler_class = "DefaultResponder"
    /\ Completes(handle_incoming_response(handler, arg), arg, "handle_incoming_response")
    /\ UNCHANGED <<handler_class, readerVars, serverVars, producerVars>>

\* socketclient's ResponseHandler.handle_response(recv), once
Apply_handle_response ==
    /\ op = ""
    /\ handler_class = "socketclient.ResponseHandler"
    /\ Completes(handle_response(handler, arg), arg, "handle_response")
    /\ UNCHANGED <<handler_class, readerVars, serverVars, producerVars>>

FunctionsNext ==
    \/ Apply_determine_analyzer_type
    \/ Apply_sc_determine_analyzer_type
    \/ Apply_decode_async_serial
    \/ Apply_sc_decode_async_serial
    \/ Apply_handle_incoming_response
    \/ Apply_handle_response

SpecFunctions == FunctionsInit /\ [][FunctionsNext]_vars

----------------------------------------------------------------------------
(* socketclient.py and socketsink.py as servers: event_loop, bind, listener *)
(* and rx_data_until_newline with a timeout, one thread, and the peer       *)

\* socketsink.py: response_handler(recv)
response_handler(recv) ==
    IF IsInstance(recv, "str") THEN utf8_encode(recv.str \o <<NL>>) ELSE recv.bytes

\* a variant: the read is not inside a try
listener_no_except(e) == "raise"

\* the listener's try around the read: except ConnectionResetError: return
listener_except(e) == IF e = "ConnectionResetError" THEN "return" ELSE "raise"

\* conn.sendall(resp) towards a peer in state p: it succeeds, or it raises (a
\* reset or a broken pipe; after the peer's close the kernel decides which)
sendall_outcomes(p) ==
    IF p = "reset" THEN {"raise"}
    ELSE IF p = "closed" THEN {"ok", "raise"}
    ELSE {"ok"}

\* the i-th frame a peer sends, as a line: the frames differ in their data
PeerFrameLine(i) == <<Doc(Frame("data", [data |-> <<64 + i>>]), "default"), NL>>

\* the first n frames of a peer, in order
RECURSIVE PeerFrames(_)
PeerFrames(n) == IF n = 0 THEN <<>> ELSE PeerFrames(n - 1) \o PeerFrameLine(n)

\* what a peer's text ends with: nothing more, a line that is no JSON, the
\* beginning of a line
PeerTails == {<<>>, <<Ch(97), NL>>, <<Ch(97)>>}

\* the texts a peer has to send: some frames and a tail
PeerStreams == {PeerFrames(n) \o t : n \in 0..MaxPeerStreamLen, t \in PeerTails}

ServerInit ==
    /\ program \in {"socketclient", "socketsink"}
    /\ pc = "bind"
    /\ conn = "none"
    /\ peer = "none"
    /\ elapsed = 0
    /\ pending = <<>>
    /\ outbox = <<>>
    /\ sessions = 0
    /\ ProducerAtRest
    /\ handler_class = IF program = "socketclient" THEN "socketclient.ResponseHandler"
                       ELSE "none"
    /\ handler = IF program = "socketclient" THEN ResponseHandler_init ELSE Null
    /\ op = ""
    /\ arg = PyStr(<<>>)
    /\ ret = Returns(<<>>)
    /\ applied = ""
    /\ stream = <<>>
    /\ wire = <<>>
    /\ conn_buf = <<>>
    /\ rx_pc = "idle"
    /\ accumulator = <<>>
    /\ data_accumulator = <<>>
    /\ delivered = <<>>

\* a variant: the listener is left and nothing closes the socket
listener_leaves_open(how) ==
    /\ UNCHANGED conn
    /\ pc' = IF how = "return" THEN "bind" ELSE "exited"

\* the listener is left: `with conn` closes the socket; a return goes back to
\* event_loop's while True, an exception leaves event_loop and ends the process
listener_leaves(how) ==
    /\ conn' = "closed"
    /\ pc' = IF how = "return" THEN "bind" ELSE "exited"

\* the listener has returned: its locals are gone, and so is what the
\* connection carried
session_over ==
    /\ stream' = <<>>
    /\ wire' = <<>>
    /\ conn_buf' = <<>>
    /\ accumulator' = <<>>
    /\ data_accumulator' = <<>>
    /\ delivered' = <<>>
    /\ pending' = <<>>
    /\ outbox' = <<>>
    /\ UNCHANGED rx_pc

\* event_loop calls bind: a new socket, s.bind, s.listen, settimeout(0.1)
event_loop_bind ==
    /\ pc = "bind"
    /\ pc' = "accept"
    /\ UNCHANGED <<producerVars, program, conn, peer, elapsed, pending, outbox, sessions>>
    /\ UNCHANGED <<readerVars, handlerVars>>

\* s.accept() returns the connection; event_loop calls listener(conn, addr),
\* which starts with data_accumulator = ""
bind_accepts ==
    /\ pc = "accept"
    /\ peer = "connecting"
    /\ conn' = "open"
    /\ peer' = "open"
    /\ pc' = "rx_call"
    /\ data_accumulator' = <<>>
    /\ accumulator' = <<>>
    /\ conn_buf' = <<>>
    /\ delivered' = <<>>
    /\ outbox' = <<>>
    /\ pending' = <<>>
    /\ UNCHANGED <<producerVars, program, elapsed, sessions, stream, wire, rx_pc>>
    /\ UNCHANGED handlerVars

\* a variant: accept has no timeout and waits for a client
accept_blocks(p) == FALSE

\* s.settimeout(0.1); s.accept(): with no client connecting (p the remote's
\* state) accept raises socket.timeout
accept_timed_out(p) == p # "connecting"

\* s.accept() times out: bind returns (None, None) and event_loop continues
bind_times_out ==
    /\ pc = "accept"
    /\ accept_timed_out(peer)
    /\ pc' = "bind"
    /\ UNCHANGED <<producerVars, program, conn, peer, elapsed, pending, outbox, sessions>>
    /\ UNCHANGED <<readerVars, handlerVars>>

\* the listener calls rx_data_until_newline(conn, current_accumulator=data_accumulator):
\* start_time = time.time(), accumulator = [current_accumulator]
listener_calls_rx ==
    /\ pc = "rx_call"
    /\ elapsed' = 0
    /\ accumulator' = rx_entry(data_accumulator)
    /\ pc' = "rx_check"
    /\ UNCHANGED <<producerVars, program, conn, peer, pending, outbox, sessions>>
    /\ UNCHANGED <<stream, wire, conn_buf, rx_pc, data_accumulator, delivered>>
    /\ UNCHANGED handlerVars

\* a variant: the test of the time spent is never true
never_timed_out(e) == FALSE

\* time.time() - timeout > start_time, e the seconds since start_time
timed_out(e) == e > timeout

\* if time.time() - timeout > start_time: return (None, None); the listener
\* sees a None and returns
rx_timeout ==
    /\ pc = "rx_check"
    /\ timed_out(elapsed)
    /\ listener_leaves("return")
    /\ session_over
    /\ UNCHANGED <<producerVars, program, peer, elapsed, sessions>>
    /\ UNCHANGED handlerVars

\* the test fails and the loop goes on to conn.recv(2048)
rx_check_passes ==
    /\ pc = "rx_check"
    /\ ~timed_out(elapsed)
    /\ pc' = "rx_recv"
    /\ UNCHANGED <<producerVars, program, conn, peer, elapsed, pending, outbox, sessions>>
    /\ UNCHANGED <<readerVars, handlerVars>>

\* conn.recv returns bytes: decode, append or split; on a newline the call
\* returns and the listener has `data` to go through
rx_recv_data ==
    /\ pc = "rx_recv"
    /\ conn_buf # <<>>
    /\ conn_buf' = recv_rest(conn_buf)
    /\ \E d \in {utf8_decode(recv_chunk(conn_buf))} :
       IF ~d.ok
       THEN /\ listener_leaves(listener_except("UnicodeDecodeError"))
            /\ UNCHANGED <<accumulator, data_accumulator, delivered, pending>>
       ELSE \E p \in {rx_pass(accumulator, d.text)} :
            /\ accumulator' = p.acc
            /\ UNCHANGED conn
            /\ IF p.brk
               THEN /\ pc' = "packets"
                    /\ pending' = AllButLast(p.acc)
                    /\ delivered' = delivered \o AllButLast(p.acc)
                    /\ data_accumulator' = Last(p.acc)
               ELSE /\ pc' = "rx_check"
                    /\ UNCHANGED <<data_accumulator, delivered, pending>>
    /\ UNCHANGED <<producerVars, program, peer, elapsed, outbox, sessions, stream, wire, rx_pc>>
    /\ UNCHANGED handlerVars

\* the peer has closed its side: conn.recv returns b'', which holds no newline
\* and is appended
rx_recv_eof ==
    /\ pc = "rx_recv"
    /\ conn_buf = <<>>
    /\ peer = "closed"
    /\ pc' = "rx_check"
    /\ UNCHANGED <<producerVars, program, conn, peer, elapsed, pending, outbox, sessions>>
    /\ UNCHANGED <<readerVars, handlerVars>>

\* the peer has reset the connection: conn.recv raises ConnectionResetError
rx_recv_reset ==
    /\ pc = "rx_recv"
    /\ peer = "reset"
    /\ listener_leaves(listener_except("ConnectionResetError"))
    /\ session_over
    /\ UNCHANGED <<producerVars, program, peer, elapsed, sessions>>
    /\ UNCHANGED handlerVars

\* the reply to one packet is there (c: the handler after the call and what it
\* returned or raised; check: what the integrity check after the send raised):
\* conn.sendall(resp), then the next packet or the next read
listener_sends(c, r, name, check) ==
    /\ Completes(c, r, name)
    /\ IF c.ret.exc # ""
       THEN /\ listener_leaves("raise")
            /\ UNCHANGED <<pending, outbox>>
       ELSE \E sent \in sendall_outcomes(peer) :
            IF sent = "raise"
            THEN /\ listener_leaves("raise")
                 /\ UNCHANGED <<pending, outbox>>
            ELSE /\ outbox' = Append(outbox, c.ret.val)
                 /\ IF check # ""
                    THEN /\ listener_leaves("raise")
                         /\ UNCHANGED pending
                    ELSE /\ pending' = Tail(pending)
                         /\ pc' = IF Tail(pending) = <<>> THEN "rx_call" ELSE "packets"
                         /\ UNCHANGED conn

\* a variant: the loop takes the newest packet first
newest_packet(data) == data[Len(data)]

\* for packet in data: the packet the loop takes next
next_packet(data) == Head(data)

\* for packet in data: resp = RESPONSE_HANDLER.handle_response(packet) and the
\* send (socketclient); resp = response_handler(packet), the send, and
\* json.loads(packet) as an integrity check (socketsink)
listener_packet ==
    /\ pc = "packets"
    /\ IF program = "socketclient"
       THEN \E c \in {handle_response(handler, PyStr(next_packet(pending)))} :
                listener_sends(c, PyStr(next_packet(pending)), "handle_response", "")
       ELSE \E c \in {[self |-> handler,
                        ret |-> Returns(response_handler(PyStr(next_packet(pending)))),
                        applied |-> ""]} :
                listener_sends(c, PyStr(next_packet(pending)), "response_handler",
                               json_loads(next_packet(pending)).exc)
    /\ UNCHANGED <<producerVars, program, peer, elapsed, sessions, handler_class>>
    /\ UNCHANGED readerVars

\* the steps of the thread outside the for loop over the packets
ThreadMoves ==
    \/ event_loop_bind
    \/ bind_accepts
    \/ bind_times_out
    \/ listener_calls_rx
    \/ rx_timeout
    \/ rx_check_passes
    \/ rx_recv_data
    \/ rx_recv_eof
    \/ rx_recv_reset

ServerStep == ThreadMoves \/ listener_packet

\* a client connects while the server listens, with a text to send
peer_connect ==
    /\ pc = "accept"
    /\ peer # "connecting"
    /\ sessions < MaxSessions
    /\ sessions' = sessions + 1
    /\ peer' = "connecting"
    /\ \E t \in PeerStreams :
        /\ stream' = t
        /\ wire' = utf8_encode(t)
    /\ UNCHANGED <<producerVars, program, pc, conn, elapsed, pending, outbox>>
    /\ UNCHANGED <<conn_buf, rx_pc, accumulator, data_accumulator, delivered>>
    /\ UNCHANGED handlerVars

\* what a connected peer does for good: "reset" the connection, close its side
\* ("closed"), or keep the connection open and send nothing more ("stalled")
peer_ends(how) ==
    /\ peer = "open"
    /\ conn = "open"
    /\ peer' = how
    /\ wire' = <<>>
    /\ UNCHANGED <<producerVars, program, pc, conn, elapsed, pending, outbox, sessions>>
    /\ UNCHANGED <<stream, conn_buf, rx_pc, accumulator, data_accumulator, delivered>>
    /\ UNCHANGED handlerVars

peer_reset == peer_ends("reset")

peer_close == peer_ends("closed")

peer_stall == peer_ends("stalled")

PeerStep == peer_connect \/ peer_send \/ peer_reset \/ peer_close \/ peer_stall

\* a second passes inside rx_data_until_newline; past the timeout more time
\* changes nothing
Tick ==
    /\ pc \in {"rx_check", "rx_recv"}
    /\ elapsed <= timeout
    /\ elapsed' = elapsed + 1
    /\ UNCHANGED <<producerVars, program, pc, conn, peer, pending, outbox, sessions>>
    /\ UNCHANGED <<readerVars, handlerVars>>

ServerNext == ServerStep \/ PeerStep \/ Tick

SpecServer == ServerInit /\ [][ServerNext]_vars

\* the thread does not stop inside the for loop: listener_packet can be taken
\* exactly when pc = "packets", and it is the only step that then changes pc
\* or pending, so this is weak fairness of listener_packet
PacketFair == []<>(pc # "packets") \/ []<><<pc = "packets">>_<<pc, pending>>

\* the thread runs whenever it can, and time passes
LiveSpec == SpecServer /\ WF_vars(ThreadMoves) /\ PacketFair /\ WF_vars(Tick)

----------------------------------------------------------------------------
(* The analyzers, saleaesocketsource.SocketSource and                       *)
(* socketserver.SocketTransport: decode sends every frame to the remote     *)
(* program and, when the setting says so, waits for its response.           *)
(* socketserver runs with the socket streaming on and the file streaming    *)
(* off.  `conn` is self.socket ("none" is None), `peer` the remote program, *)
(* `outbox` what the analyzer has sent on its connection.                   *)

\* a frame's time as the message has it: str(t) in socketserver,
\* t.as_datetime().isoformat() in saleaesocketsource
time_text(p, t) == JString(<<[time |-> t, format |-> IF p = "socketserver" THEN "str" ELSE "isoformat"]>>)

\* the i-th frame the analyzer is given: one byte of serial data
AnalyzerFrame(i) ==
    [type |-> "data", start_time |-> 0, end_time |-> 1,
     data |-> [data |-> PyBytes(<<B(64 + i)>>)]]

AnalyzerFrames == {AnalyzerFrame(i) : i \in 1..MaxFrames}

\* list(v) of a bytes object v
list_of_bytes(v) == [i \in 1..Len(v.bytes) |-> v.bytes[i].b]

\* frame_data = frame.data.copy(), every bytes value replaced by list(v)
scrub(frame_data) ==
    [k \in DOMAIN frame_data |->
        IF IsInstance(frame_data[k], "bytes") THEN list_of_bytes(frame_data[k])
        ELSE frame_data[k]]

\* the message decode builds for a frame
frame_message(p, frame) ==
    ("type" :> "frame") @@ ("frame-type" :> frame.type)
    @@ ("start" :> time_text(p, frame.start_time))
    @@ ("end" :> time_text(p, frame.end_time))
    @@ ("data" :> scrub(frame.data))

\* the message __init__ tries first, to see whether a socket is there
ping_message(p) ==
    IF p = "socketserver"
    THEN ("type" :> "client-notification") @@ ("data" :> "Ping: checking connection")
         @@ ("level" :> "debug")
    ELSE ("type" :> "client-notification") @@ ("data" :> "Ping: checking connection")

\* the two messages __init__ sends once it thinks it has a socket
connected_message(p) ==
    IF p = "socketserver"
    THEN ("type" :> "client-notification") @@ ("data" :> "Connected to socket")
         @@ ("level" :> "info")
    ELSE ("type" :> "client-notification") @@ ("data" :> "Connected to socket")

control_message(check) ==
    ("type" :> "client-control") @@ ("server-expects-response" :> check)

\* string.encode('utf-8') of json.dumps(message) + '\n'
message_bytes(message) == utf8_encode(json_dumps(message) \o <<NL>>)

\* self.socket.sendall(...) towards a remote in state p: "ok", or the error it
\* raises (which one after a reset is the platform's choice; after the
\* remote's close the first send may still succeed)
producer_sendall_outcomes(p) ==
    IF p = "reset" THEN {"ConnectionResetError", "ConnectionAbortedError"}
    ELSE IF p = "closed" THEN {"ok", "BrokenPipeError"}
    ELSE {"ok"}

\* how a socket_send_json(message) with unsafe=False can go: without a socket
\* it returns before any send
send_outcomes(s, p) == IF s = "none" THEN {"skipped"} ELSE producer_sendall_outcomes(p)

\* except (ConnectionResetError, ConnectionAbortedError):
send_caught(e) == e \in {"ConnectionResetError", "ConnectionAbortedError"}

\* a variant: the except clause leaves the socket as it is
send_failed_keeps_socket(s) == s

\* the except clause: self.socket = None
send_failed_socket(s) == "none"

\* socket_send_json(message) whose send went as `sent`: the socket afterwards,
\* the bytes that went out, the error that escapes
socket_send_json(s, message, sent) ==
    IF sent = "skipped" THEN [socket |-> s, out |-> <<>>, exc |-> ""]
    ELSE IF sent = "ok" THEN [socket |-> s, out |-> <<message_bytes(message)>>, exc |-> ""]
    ELSE IF send_caught(sent) THEN [socket |-> send_failed_socket(s), out |-> <<>>, exc |-> ""]
    ELSE [socket |-> s, out |-> <<>>, exc |-> sent]

\* a variant: the count is that of the last read
count_last_missed(missed, resp) == Len(resp) - 1

\* a variant: every message of the read counts as missed
count_all_missed(missed, resp) == missed + Len(resp)

\* if len(response) == 1: ... else: self.missed_packets += len(response) - 1
count_missed(missed, resp) ==
    IF Len(resp) = 1 THEN missed ELSE missed + (Len(resp) - 1)

\* response = response[0] if len(response) == 1, else response[-1]
pick_response(resp) == IF Len(resp) = 1 THEN resp[1] ELSE resp[Len(resp)]

\* socketserver: the frame decode builds from the decoded response.  A
\* response that is a frame needs its 'data', 'start' and 'end'.
frame_of_response(decoded) ==
    IF decoded = Null THEN Returns(Null)
    ELSE IF "type" \notin DOMAIN decoded THEN Raises("KeyError")
    ELSE IF decoded["type"] # "frame" THEN Returns(Null)
    ELSE IF {"data", "start", "end", "frame-type"} \subseteq DOMAIN decoded
         THEN Returns([type |-> decoded["frame-type"], data |-> decoded["data"]])
         ELSE Raises("KeyError")

\* what decode does with the response: json.loads as an integrity check
\* (saleaesocketsource), json.loads and the frame (socketserver)
decode_result(p, resp, parsed) ==
    IF parsed.exc # "" THEN Raises(parsed.exc)
    ELSE IF p = "socketserver" THEN frame_of_response(parsed.val)
    ELSE Returns(Null)

\* the analyzer is constructed while a remote program listens (up) or not:
\* socket_connect, then the two messages, which are sent if there is a socket
ProducerConnects(up) ==
    /\ conn' = IF up THEN "open" ELSE "none"
    /\ outbox' = IF up THEN <<message_bytes(connected_message(program)),
                              message_bytes(control_message(check_for_response))>>
                 ELSE <<>>
    /\ send_result' = IF up THEN "ok" ELSE "skipped"
    /\ missed_packets' = 0
    /\ data_accumulator' = <<>>
    /\ accumulator' = <<>>
    /\ delivered' = <<>>
    /\ conn_buf' = <<>>
    /\ response' = NoneStr
    /\ pc' = "idle"
    /\ op' = "__init__"
    /\ ret' = Returns(Null)

ProducerInit ==
    /\ program \in {"saleaesocketsource", "socketserver"}
    /\ check_for_response \in BOOLEAN
    /\ \E up \in BOOLEAN :
        /\ conn = IF up THEN "open" ELSE "none"
        /\ peer = IF up THEN "open" ELSE "none"
        /\ sessions = IF up THEN 1 ELSE 0
        /\ outbox = IF up THEN <<message_bytes(connected_message(program)),
                                 message_bytes(control_message(check_for_response))>>
                    ELSE <<>>
        /\ send_result = IF up THEN "ok" ELSE "skipped"
        /\ stream \in IF up THEN PeerStreams ELSE {<<>>}
    /\ wire = utf8_encode(stream)
    /\ missed_packets = 0
    /\ data_accumulator = <<>>
    /\ accumulator = <<>>
    /\ delivered = <<>>
    /\ conn_buf = <<>>
    /\ response = NoneStr
    /\ pc = "idle"
    /\ op = "__init__"
    /\ ret = Returns(Null)
    /\ arg = PyStr(<<>>)
    /\ handler_class = "none"
    /\ handler = Null
    /\ applied = ""
    /\ rx_pc = "idle"
    /\ elapsed = 0
    /\ pending = <<>>

\* the capture is run again: a new analyzer object, whose socket is None until
\* socket_connect has a connection
analyzer_init ==
    /\ pc \in {"idle", "raised"}
    /\ ProducerConnects(peer = "listening")
    /\ peer' = IF peer = "listening" THEN "open" ELSE peer
    /\ UNCHANGED <<program, check_for_response, sessions, stream, wire>>
    /\ UNCHANGED <<rx_pc, handler_class, handler, arg, applied, elapsed, pending>>

\* decode(frame) up to the wait for the response: the message is built and
\* handed to socket_send_json; without the setting or without a socket decode
\* returns, else it calls rx_data_until_newline
decode_sends ==
    /\ pc = "idle"
    /\ Len(outbox) < MaxFrames + 2
    /\ \E frame \in AnalyzerFrames, sent \in send_outcomes(conn, peer) :
        \E r \in {socket_send_json(conn, frame_message(program, frame), sent)} :
            /\ send_result' = sent
            /\ conn' = r.socket
            /\ outbox' = outbox \o r.out
            /\ op' = "decode"
            /\ arg' = frame
            /\ IF r.exc # ""
               THEN /\ pc' = "raised"
                    /\ ret' = Raises(r.exc)
                    /\ UNCHANGED accumulator
               ELSE IF ~check_for_response \/ r.socket = "none"
               THEN /\ pc' = "idle"
                    /\ ret' = Returns(Null)
                    /\ UNCHANGED accumulator
               ELSE /\ pc' = "decode_rx"
                    /\ accumulator' = rx_entry(data_accumulator)
                    /\ UNCHANGED ret
    /\ UNCHANGED <<program, peer, elapsed, pending, sessions>>
    /\ UNCHANGED <<stream, wire, conn_buf, rx_pc, data_accumulator, delivered>>
    /\ UNCHANGED <<handler_class, handler, applied>>
    /\ UNCHANGED <<check_for_response, missed_packets, response>>

\* the read has returned the list resp and the residual: the count of the
\* missed packets, the response, and what decode does with it
decode_takes(resp, residual) ==
    /\ data_accumulator' = residual
    /\ delivered' = delivered \o resp
    /\ missed_packets' = count_missed(missed_packets, resp)
    /\ response' = pick_response(resp)
    /\ \E e \in {decode_result(program, pick_response(resp), json_loads(pick_response(resp)))} :
        /\ ret' = e
        /\ pc' = IF e.exc = "" THEN "idle" ELSE "raised"

\* one pass of rx_data_until_newline inside decode, recv having bytes to return
decode_recv ==
    /\ pc = "decode_rx"
    /\ conn_buf # <<>>
    /\ conn_buf' = recv_rest(conn_buf)
    /\ \E d \in {utf8_decode(recv_chunk(conn_buf))} :
       IF ~d.ok
       THEN /\ pc' = "raised"
            /\ ret' = Raises("UnicodeDecodeError")
            /\ UNCHANGED <<accumulator, data_accumulator, delivered, missed_packets, response>>
       ELSE \E p \in {rx_pass(accumulator, d.text)} :
            /\ accumulator' = p.acc
            /\ IF p.brk
               THEN decode_takes(AllButLast(p.acc), Last(p.acc))
               ELSE UNCHANGED <<pc, ret, data_accumulator, delivered, missed_packets, response>>
    /\ UNCHANGED <<program, conn, peer, elapsed, pending, outbox, sessions>>
    /\ UNCHANGED <<stream, wire, rx_pc>>
    /\ UNCHANGED <<handler_class, handler, op, arg, applied>>
    /\ UNCHANGED <<check_for_response, send_result>>

\* the remote has reset the connection: recv raises ConnectionResetError,
\* which nothing in decode catches
decode_recv_reset ==
    /\ pc = "decode_rx"
    /\ peer = "reset"
    /\ pc' = "raised"
    /\ ret' = Raises("ConnectionResetError")
    /\ UNCHANGED <<program, conn, peer, elapsed, pending, outbox, sessions>>
    /\ UNCHANGED <<readerVars, producerVars>>
    /\ UNCHANGED <<handler_class, handler, op, arg, applied>>

\* the remote has closed its side and nothing is left to read: conn.recv
\* returns b'' at once, and the loop has data = ''
decode_recv_eof ==
    /\ pc = "decode_rx"
    /\ rx_pc = "idle"
    /\ conn_buf = <<>>
    /\ peer = "closed"
    /\ rx_pc' = "eof"
    /\ UNCHANGED <<stream, wire, conn_buf, accumulator, data_accumulator, delivered>>
    /\ UNCHANGED <<handlerVars, serverVars, producerVars>>

\* '' holds no newline: accumulator[0] += '', and the loop is at conn.recv again
decode_appends_nothing ==
    /\ pc = "decode_rx"
    /\ rx_pc = "eof"
    /\ ~rx_pass(accumulator, <<>>).brk
    /\ accumulator' = rx_pass(accumulator, <<>>).acc
    /\ rx_pc' = "idle"
    /\ UNCHANGED <<stream, wire, conn_buf, data_accumulator, delivered>>
    /\ UNCHANGED <<handlerVars, serverVars, producerVars>>

\* a remote program starts to listen, with a text to send to whoever connects
peer_listen ==
    /\ peer # "listening"
    /\ conn = "none" \/ pc = "raised"
    /\ sessions < MaxSessions
    /\ sessions' = sessions + 1
    /\ peer' = "listening"
    /\ \E t \in PeerStreams :
        /\ stream' = t
        /\ wire' = utf8_encode(t)
    /\ UNCHANGED <<program, pc, conn, elapsed, pending, outbox>>
    /\ UNCHANGED <<conn_buf, rx_pc, accumulator, data_accumulator, delivered>>
    /\ UNCHANGED <<handlerVars, producerVars>>

\* the steps of decode inside rx_data_until_newline
DecodeWaits ==
    \/ decode_recv
    \/ decode_recv_reset
    \/ decode_recv_eof
    \/ decode_appends_nothing

ProducerStep == analyzer_init \/ decode_sends \/ DecodeWaits

RemoteStep == peer_listen \/ peer_send \/ peer_reset \/ peer_close \/ peer_stall

ProducerNext == ProducerStep \/ RemoteStep

SpecProducer == ProducerInit /\ [][ProducerNext]_vars

\* the analyzer's thread is not stopped inside decode's read
LiveProducer == SpecProducer /\ WF_vars(DecodeWaits)

----------------------------------------------------------------------------
(* What the stream holds, read off the text character by character *)

\* the messages of text t that a newline terminates, given the unterminated
\* characters `cur` before t
RECURSIVE MessagesFrom(_, _)
MessagesFrom(cur, t) ==
    IF t = <<>> THEN <<>>
    ELSE IF Head(t) = NL THEN <<cur>> \o MessagesFrom(<<>>, Tail(t))
    ELSE MessagesFrom(Append(cur, Head(t)), Tail(t))

RECURSIVE TailFrom(_, _)
TailFrom(cur, t) ==
    IF t = <<>> THEN cur
    ELSE IF Head(t) = NL THEN TailFrom(<<>>, Tail(t))
    ELSE TailFrom(Append(cur, Head(t)), Tail(t))

StreamMessages(t) == MessagesFrom(<<>>, t)

StreamTail(t) == TailFrom(<<>>, t)

\* the text the reader holds on to: its first list entry inside a call, the
\* caller's residual between calls
Residual == IF rx_pc = "loop" THEN accumulator[1] ELSE data_accumulator

StreamRead == wire = <<>> /\ conn_buf = <<>>

----------------------------------------------------------------------------
(* The properties *)

\* the argument of a call carries a message: it is, or parses to, a dict
Carries(a) == as_transport_data(a).exc = ""

MessageOf(a) == as_transport_data(a).val.as_dict

\* the message a reply carries: the reply decoded and parsed
ReplyMessage(bs) == json_loads(utf8_decode(bs).text)

\* the bytes end with one newline and hold no other
OneMessageOneNewline(bs) ==
    /\ Len(bs) >= 1
    /\ Last(bs) = B(10)
    /\ \A i \in 1..(Len(bs) - 1) : bs[i] # B(10)

HasFrameKeys(m) == {"type", "frame-type", "data"} \subseteq DOMAIN m

\* the classifier has an answer for m: it reads frame-type and data of a frame
Classified(m) == "type" \in DOMAIN m /\ (m["type"] = "frame" => HasFrameKeys(m))

\* the classification of a message, as a table
Classification(m) ==
    CASE m["type"] # "frame" -> "None"
      [] m["type"] = "frame" /\ m["data"] = Null -> "None"
      [] OTHER ->
           CASE m["frame-type"] = "data" /\ "ack" \in DOMAIN m["data"] -> "i2c"
             [] m["frame-type"] = "data" /\ "ack" \notin DOMAIN m["data"] -> "async-serial"
             [] m["frame-type"] \in {"address", "start", "stop"} -> "i2c"
             [] m["frame-type"] \in {"enable", "disable", "result", "error"} -> "spi"
             [] OTHER -> "None"

DispatchCalls == {"handle_incoming_response", "handle_response"}

\* C1: the frame reader never fails on a chunk, and once the whole stream is
\* read the messages returned by the calls are exactly the newline-terminated
\* messages of the stream, in order, and the residual is the unterminated tail.
C1_FrameReaderExact ==
    /\ rx_pc # "raised"
    /\ StreamRead =>
        /\ delivered = StreamMessages(stream)
        /\ Residual = StreamTail(stream)

\* C2: every reply that prepare_json_outgoing or handle_incoming_response
\* returns ends with one newline and holds no other newline, whatever the
\* representation of the input.
C2_ReplyEndsWithOneNewline ==
    (op \in {"prepare_json_outgoing", "handle_incoming_response"} /\ ret.exc = "")
        => OneMessageOneNewline(ret.val)

\* C3: a dispatch call leaves a known analyzer_type as it is, and changes an
\* unknown one only to the classification of the message it handles.
C3_StickyClassification ==
    [][op' \in DispatchCalls =>
          IF handler.analyzer_type # "None"
          THEN handler'.analyzer_type = handler.analyzer_type
          ELSE \/ handler'.analyzer_type = "None"
               \/ /\ Carries(arg')
                  /\ Classified(MessageOf(arg'))
                  /\ handler'.analyzer_type = Classification(MessageOf(arg'))]_vars

\* C3 witness: a handler whose type is async-serial has handled a message that
\* classifies as spi, and is async-serial still.
C3_Witness ==
    /\ op \in DispatchCalls
    /\ handler.analyzer_type = "async-serial"
    /\ Carries(arg)
    /\ Classified(MessageOf(arg))
    /\ Classification(MessageOf(arg)) = "spi"

\* C4: with the sticky type async-serial, a message that classifies as i2c
\* gets a reply from handle_incoming_response: the call raises nothing.
C4_StickySerialRepliesToI2c ==
    ( /\ handler_class = "DefaultResponder"
      /\ op = "handle_incoming_response"
      /\ handler.analyzer_type = "async-serial"
      /\ Carries(arg)
      /\ Classified(MessageOf(arg))
      /\ Classification(MessageOf(arg)) = "i2c" )
        => ret.exc = ""

\* C5: for a message with type, frame-type and data, determine_analyzer_type
\* returns what the table says, whatever the handler's state, and the call
\* leaves the handler's fields as they are.
C5_ClassifierTable ==
    /\ []( (op = "determine_analyzer_type" /\ HasFrameKeys(MessageOf(arg)))
            => (ret.exc = "" /\ ret.val = Classification(MessageOf(arg))) )
    /\ [][op' = "determine_analyzer_type" => handler' = handler]_vars

\* C5 witness: a handler whose sticky type is spi has classified a 'data' frame
\* with an 'ack' key as i2c.
C5_Witness ==
    /\ op = "determine_analyzer_type"
    /\ handler.analyzer_type = "spi"
    /\ HasFrameKeys(MessageOf(arg))
    /\ MessageOf(arg)["frame-type"] = "data"
    /\ ret.exc = ""
    /\ ret.val = "i2c"

\* C6: a message that classifies as unknown is answered with a reply that
\* carries the same message; no decoder is applied and analyzer_type, whatever
\* it is, stays.
C6_UnknownEchoed ==
    [][( /\ op' \in DispatchCalls
         /\ Carries(arg')
         /\ Classified(MessageOf(arg'))
         /\ Classification(MessageOf(arg')) = "None" )
        => /\ ret'.exc = ""
           /\ ReplyMessage(ret'.val).exc = ""
           /\ ReplyMessage(ret'.val).val = MessageOf(arg')
           /\ applied' = ""
           /\ handler'.analyzer_type = handler.analyzer_type]_vars

\* C6 witness: a handler whose sticky type is async-serial has echoed a message
\* of unknown classification.
C6_Witness ==
    /\ op = "handle_incoming_response"
    /\ handler.analyzer_type = "async-serial"
    /\ Carries(arg)
    /\ Classified(MessageOf(arg))
    /\ Classification(MessageOf(arg)) = "None"
    /\ applied = ""
    /\ ret.exc = ""
    /\ ReplyMessage(ret.val).val = MessageOf(arg)

\* C7: with the sticky type i2c or spi, a classified message is answered with
\* a reply that carries the same message, and the async-serial decoder is not
\* applied.
C7_IdentityFallback ==
    [][( /\ op' \in DispatchCalls
         /\ handler.analyzer_type \in {"i2c", "spi"}
         /\ Carries(arg')
         /\ Classified(MessageOf(arg'))
         /\ Classification(MessageOf(arg')) # "None" )
        => /\ ret'.exc = ""
           /\ ReplyMessage(ret'.val).exc = ""
           /\ ReplyMessage(ret'.val).val = MessageOf(arg')
           /\ applied' # "decode_async_serial"]_vars

\* C7 witness: spi first, an async-serial data frame second: the second frame
\* comes back as it was.
C7_Witness ==
    /\ handler_class = "DefaultResponder"
    /\ op = "handle_incoming_response"
    /\ handler.analyzer_type = "spi"
    /\ Carries(arg)
    /\ Classified(MessageOf(arg))
    /\ Classification(MessageOf(arg)) = "async-serial"
    /\ applied = "prepare_json_outgoing"
    /\ ret.exc = ""
    /\ ReplyMessage(ret.val).val = MessageOf(arg)

\* data.data of m is a non-empty array whose first element is a byte
SerialData(m) ==
    /\ "data" \in DOMAIN m
    /\ "data" \in DOMAIN m["data"]
    /\ Len(m["data"]["data"]) >= 1
    /\ m["data"]["data"][1] \in 0..255

\* the value of one uppercase hexadecimal digit, -1 for any other character
UpperHexValue(u) ==
    IF u.ch \in 48..57 THEN u.ch - 48
    ELSE IF u.ch \in 65..70 THEN u.ch - 55
    ELSE -1

\* text is '0x' and two uppercase hexadecimal digits worth b
IsHexText(text, b) ==
    /\ Len(text) = 4
    /\ text[1] = Ch(48)
    /\ text[2] = Ch(120)
    /\ UpperHexValue(text[3]) >= 0
    /\ UpperHexValue(text[4]) >= 0
    /\ 16 * UpperHexValue(text[3]) + UpperHexValue(text[4]) = b

\* out is m with frame-type 'text' and data.text the hex text of the first
\* byte, and nothing else changed
DecodedFrom(m, out) ==
    /\ DOMAIN out = DOMAIN m \cup {"frame-type"}
    /\ out["frame-type"] = "text"
    /\ \A k \in DOMAIN m \ {"frame-type", "data"} : out[k] = m[k]
    /\ DOMAIN out["data"] = DOMAIN m["data"] \cup {"text"}
    /\ \A k \in DOMAIN m["data"] \ {"text"} : out["data"][k] = m["data"][k]
    /\ IsHexText(out["data"]["text"], m["data"]["data"][1])

\* C8: the async-serial decoder, called as it is or through the dispatch, on a
\* message whose data.data starts with a byte b: frame-type becomes 'text',
\* data.text is '0x' and the two uppercase hexadecimal digits of b, every
\* other field is as in the message.
C8_SerialDecoderHexText ==
    /\ (op = "decode_async_serial" /\ SerialData(MessageOf(arg)))
        => (ret.exc = "" /\ DecodedFrom(MessageOf(arg), ret.val))
    /\ (op \in DispatchCalls /\ applied = "decode_async_serial" /\ SerialData(MessageOf(arg)))
        => /\ ret.exc = ""
           /\ ReplyMessage(ret.val).exc = ""
           /\ DecodedFrom(MessageOf(arg), ReplyMessage(ret.val).val)

\* C8 witness: the dispatch has decoded a frame whose data.data is [255], and
\* the reply says 0xFF.
C8_Witness ==
    /\ op = "handle_incoming_response"
    /\ applied = "decode_async_serial"
    /\ SerialData(MessageOf(arg))
    /\ MessageOf(arg)["data"]["data"] = <<255>>
    /\ ret.exc = ""
    /\ ReplyMessage(ret.val).val["data"]["text"] = <<Ch(48), Ch(120), Ch(70), Ch(70)>>

\* the listener waits in conn.recv, nothing is there to read, and the peer has
\* reset the connection
ResetMidRead == pc = "rx_recv" /\ peer = "reset" /\ conn_buf = <<>>

\* C9: when the peer's reset reaches the listener's read, the thread's next
\* step closes the connection and is back at event_loop's bind, and from
\* there the server listens again.
C9_ResetRecovery ==
    /\ [][(ResetMidRead /\ pc' # pc) => (pc' = "bind" /\ conn' = "closed")]_vars
    /\ ResetMidRead ~> (pc = "accept" /\ conn = "closed")

\* C9 witness: the session with a peer that reset has ended before any timeout,
\* and the server is listening for the next connection.
C9_Witness ==
    /\ pc = "accept"
    /\ conn = "closed"
    /\ peer = "reset"
    /\ elapsed <= timeout

\* a connected peer is silent for good, and what it sent holds no newline
StalledPeer ==
    /\ peer = "stalled"
    /\ conn = "open"
    /\ pc \in {"rx_call", "rx_check", "rx_recv"}
    /\ ~HasNewline(utf8_decode(conn_buf).text)

\* C10: a peer that keeps its connection open and sends no newline: the read
\* gives up and event_loop is back at bind.
C10_StalledPeerAbandoned == StalledPeer ~> (pc = "bind")

\* the peer has closed its side and the listener's read finds nothing
ClosedMidRead == pc = "rx_recv" /\ peer = "closed" /\ conn_buf = <<>>

\* C11: when the peer has closed its side and the reads return no data, the
\* reads of that session go on until the session ends with the connection
\* closed and event_loop back at bind, and the server listens again.
C11_OrderlyClose ==
    /\ [][(ClosedMidRead /\ pc' # pc) => pc' = "rx_check"]_vars
    /\ [][(pc = "rx_check" /\ peer = "closed" /\ conn_buf = <<>> /\ pc' # pc)
           => (pc' = "rx_recv" \/ (pc' = "bind" /\ conn' = "closed"))]_vars
    /\ ClosedMidRead ~> (pc = "accept" /\ conn = "closed")

\* C11 witness: the session with a peer that closed its side has ended by the
\* timeout of the read, and the server is listening for the next connection.
C11_Witness ==
    /\ pc = "accept"
    /\ conn = "closed"
    /\ peer = "closed"
    /\ elapsed > timeout

\* the for loop is about to handle a complete message that is no JSON, and
\* the peer is there to take the reply
MalformedPacket ==
    /\ pc = "packets"
    /\ peer = "open"
    /\ json_loads(Head(pending)).exc # ""

\* C12: handling a complete message that is not valid JSON does not end the
\* event-loop task: after the step the thread is still in the session or back
\* at bind.
C12_MalformedKeepsServing == [][MalformedPacket => pc' # "exited"]_vars

\* the for loop is about to answer a message that is JSON, and the peer has
\* reset the connection
WriteToResetPeer ==
    /\ pc = "packets"
    /\ peer = "reset"
    /\ json_loads(Head(pending)).exc = ""

\* C13: when the handler has produced the reply and conn.sendall meets the
\* peer's reset, the session ends as a normal one: the thread's next position
\* is event_loop's bind.
C13_ResetDuringWriteEndsSession ==
    [][(WriteToResetPeer /\ ret'.exc = "" /\ pc' # pc) => pc' = "bind"]_vars

\* the thread is inside a session
InSession == pc \in {"rx_call", "rx_check", "rx_recv", "packets"}

\* reply is what the program answers to the message text: socketsink sends
\* the text back as a line; socketclient, for a frame of serial data, sends
\* the decoded frame
Answers(reply, text) ==
    IF program = "socketsink"
    THEN reply = utf8_encode(text \o <<NL>>)
    ELSE /\ json_loads(text).exc = ""
         /\ ReplyMessage(reply).exc = ""
         /\ OneMessageOneNewline(reply)
         /\ DecodedFrom(json_loads(text).val, ReplyMessage(reply).val)

\* C15: on one connection the i-th reply written answers the i-th message
\* received, and the message the for loop hands to the handler next is the
\* first one without a reply: every earlier message has its reply on the
\* wire, whether the messages came in one read or in several.
C15_RepliesInArrivalOrder ==
    /\ \A i \in 1..Len(outbox) :
          i <= Len(delivered) /\ Answers(outbox[i], delivered[i])
    /\ InSession => pending = SubSeq(delivered, Len(outbox) + 1, Len(delivered))
    /\ (InSession /\ pc # "packets") => pending = <<>>

\* C15 witness: two different messages were received, the first has its
\* reply on the wire and the second is the one the loop takes next.
C15_Witness ==
    /\ pc = "packets"
    /\ Len(delivered) = 2
    /\ delivered[1] # delivered[2]
    /\ Len(outbox) = 1
    /\ pending = <<delivered[2]>>

\* C16: a connection is open only while the thread is inside the listener:
\* event_loop is in bind or accept only with no connection open, and however
\* the listener was left (a return after a timeout or a reset, or an error
\* that ends the thread), the connection of that session is closed.
C16_OneConnection ==
    /\ conn = "open" => InSession
    /\ pc \in {"bind", "accept"} => conn \in {"none", "closed"}
    /\ (pc \in {"bind", "accept", "exited"} /\ sessions > 0 /\ peer # "connecting")
           => conn = "closed"
    /\ pc = "exited" => conn = "closed"

\* C16 witness: a session has ended and event_loop is in bind again, the
\* connection closed.
C16_Witness ==
    /\ pc = "bind"
    /\ conn = "closed"
    /\ sessions > 0

\* a step of the analyzer that is a call of decode up to the wait for the
\* response: the remote's steps change one of peer, wire, sessions
DecodeStep ==
    /\ pc = "idle"
    /\ op' = "decode"
    /\ UNCHANGED <<peer, wire, conn_buf, sessions>>

\* decode had a socket, and its send ended in a connection reset or abort
SendFailed ==
    /\ DecodeStep
    /\ conn = "open"
    /\ send_result' \in {"ConnectionResetError", "ConnectionAbortedError"}

\* decode returns None at once
ReturnsAtOnce == pc' = "idle" /\ ret'.exc = "" /\ ret'.val = Null

\* C14: a decode whose send fails with a connection reset or abort leaves the
\* analyzer without a socket, sends nothing of the message, raises nothing
\* and returns without waiting for a response; a decode without a socket
\* tries no send and leaves everything the analyzer sent as it is; and the
\* analyzer has a socket again only through a socket_connect that found the
\* remote listening, with nothing of a dropped message sent then.
C14_WriteFailureDropsMessage ==
    /\ [][SendFailed => (conn' = "none" /\ outbox' = outbox /\ ReturnsAtOnce)]_vars
    /\ [][(DecodeStep /\ conn = "none")
           => (send_result' = "skipped" /\ conn' = "none" /\ outbox' = outbox
               /\ ReturnsAtOnce)]_vars
    /\ [][(conn = "none" /\ conn' # "none")
           => (op' = "__init__" /\ peer = "listening"
               /\ outbox' = <<message_bytes(connected_message(program)),
                              message_bytes(control_message(check_for_response))>>)]_vars

\* C14 witness: the analyzer waits for responses and had sent a frame; the
\* send of a later decode met the remote's reset, and decode has returned
\* with the socket gone.
C14_Witness ==
    /\ op = "decode"
    /\ send_result = "ConnectionResetError"
    /\ check_for_response
    /\ conn = "none"
    /\ pc = "idle"
    /\ Len(outbox) = 3

\* a step of decode's read in which recv returns what has arrived
RecvStep ==
    /\ pc = "decode_rx"
    /\ conn_buf # <<>>
    /\ conn_buf' = recv_rest(conn_buf)
    /\ UNCHANGED <<wire, peer>>

\* the newlines in a text
NewlineCount(text) == Cardinality({i \in 1..Len(text) : text[i] = NL})

\* the messages that the bytes recv returns complete
Completed == NewlineCount(utf8_decode(recv_chunk(conn_buf)).text)

\* C17: when a read of decode returns n messages, missed_packets grows by
\* n - 1, so not at all for one message, and the response decode goes on
\* with is the last of the n, in the order the remote sent them.
C17_BacklogAccounting ==
    /\ [][(RecvStep /\ Completed > 1)
           => (/\ missed_packets' = missed_packets + Completed - 1
               /\ Len(delivered') = Len(delivered) + Completed
               /\ response' = StreamMessages(stream)[Len(delivered')])]_vars
    /\ [][(RecvStep /\ Completed = 1)
           => (/\ missed_packets' = missed_packets
               /\ Len(delivered') = Len(delivered) + 1
               /\ response' = StreamMessages(stream)[Len(delivered')])]_vars
    /\ [][(RecvStep /\ Completed = 0)
           => (missed_packets' = missed_packets /\ response' = response
               /\ pc' = "decode_rx")]_vars

\* C17 witness: one read of decode returned two messages: one is counted as
\* missed and the second is the response.
C17_Witness ==
    /\ op = "decode"
    /\ pc \in {"idle", "raised"}
    /\ Len(delivered) = 2
    /\ missed_packets = 1
    /\ response = delivered[2]
    /\ response # delivered[1]

\* socketclient's listener has been called for a new connection and has read
\* nothing yet
SessionStart ==
    /\ program = "socketclient"
    /\ pc = "rx_call"
    /\ delivered = <<>>

\* C18: at the start of every session the handler is as new: analyzer_type is
\* unknown, tracking_frame and previous_data are empty.
C18_HandlerFreshEachSession ==
    SessionStart =>
        /\ handler.analyzer_type = "None"
        /\ handler.tracking_frame = Null
        /\ handler.previous_data = <<>>

\* the three views of a TransportData agree: as_str is as_bytes decoded as
\* UTF-8, as_dict is as_str parsed as JSON
Consistent(td) ==
    /\ utf8_decode(td.as_bytes).ok
    /\ utf8_decode(td.as_bytes).text = td.as_str
    /\ json_loads(td.as_str).exc = ""
    /\ json_loads(td.as_str).val = td.as_dict

\* the handler field f holds nothing or a TransportData whose views agree
FieldConsistent(f) ==
    (f \in DOMAIN handler /\ handler[f] # Null) => Consistent(handler[f])

\* C19: whatever operations the handler has gone through, the TransportData
\* in current_incoming and the one in current_outgoing have views that agree.
C19_ViewsStayConsistent ==
    handler # Null =>
        /\ FieldConsistent("current_incoming")
        /\ FieldConsistent("current_outgoing")

\* a is a byte sequence, a text, or a structured value: a map, a sequence or
\* a scalar
Accepted(a) ==
    \/ IsInstance(a, "bytes")
    \/ IsInstance(a, "str")
    \/ IsInstance(a, "dict")
    \/ IsInstance(a, "list")
    \/ IsInstance(a, "int")

\* the call handed its argument to TransportData.from_any
ThroughFromAny ==
    /\ op \in {"prepare_json_incoming", "prepare_json_outgoing"}
    /\ ~IsInstance(arg, "TransportData")

\* C20: from_any raises TypeError exactly for an argument that is neither a
\* byte sequence nor a structured value (map, sequence, scalar) nor a text.
C20_TypeErrorExactly ==
    ThroughFromAny => (ret.exc = "TypeError" <=> ~Accepted(arg))

\* the classifier has been called on a frame that has its frame-type and
\* whose data is missing or null
FrameWithoutData ==
    /\ op \in {"determine_analyzer_type", "sc_determine_analyzer_type"}
    /\ json_loads(arg.str).exc = ""
    /\ {"type", "frame-type"} \subseteq DOMAIN json_loads(arg.str).val
    /\ json_loads(arg.str).val["type"] = "frame"
    /\ \/ "data" \notin DOMAIN json_loads(arg.str).val
       \/ json_loads(arg.str).val["data"] = Null

\* C21: called on a frame whose data is missing or null, the classifier
\* raises nothing and returns unknown.
C21_NoDataIsUnknown ==
    FrameWithoutData => (ret.exc = "" /\ ret.val = "None")

\* C22: event_loop goes round for ever: from bind's call the thread is in
\* accept; accept ends either with no client, and bind is called again with
\* no connection made, or with a client, and the listener runs on the
\* connection; when the listener is left by a return the next call is bind;
\* and accept never lasts for ever, so bind is called again and again while
\* no client connects.
C22_EventLoop ==
    /\ [][(pc = "bind" /\ pc' # pc) => pc' = "accept"]_vars
    /\ [][(pc = "accept" /\ pc' # pc)
           => \/ pc' = "bind" /\ peer # "connecting" /\ conn' = conn
              \/ pc' = "rx_call" /\ peer = "connecting" /\ conn' = "open"]_vars
    /\ [][(InSession /\ ~InSession') => pc' \in {"bind", "exited"}]_vars
    /\ (pc = "accept") ~> (pc \in {"bind", "rx_call"})
    /\ (pc = "bind") ~> (pc = "accept")

\* C22 witness: one session has been served and has returned, bind was called
\* again and the thread is in accept with no client connecting.
C22_Witness ==
    /\ pc = "accept"
    /\ sessions = 1
    /\ conn = "closed"
    /\ peer \notin {"connecting", "open"}

----------------------------------------------------------------------------
(* Handler Loader: a "file-path:class-name" specifier is resolved at        *)
(* process start.  resolveSpec follows section 4.6 of the specification:    *)
(* the specifier is cut into its colon-delimited segments, the last one is  *)
(* the class name and the ones before it are rejoined as the path.          *)

MaxSpecLen == 6

\* ':'
Colon == Ch(58)

\* 'C', ':' and 'h': a drive letter, the delimiter and a name
SpecChars == {Ch(67), Colon, Ch(104)}

RECURSIVE SpecifiersUpTo(_)
SpecifiersUpTo(n) ==
    IF n = 0 THEN {<<>>}
    ELSE LET shorter == SpecifiersUpTo(n - 1) IN
         shorter \cup {<<c>> \o t : c \in SpecChars,
                                    t \in {s \in shorter : Len(s) = n - 1}}

HasColon(text) == \E i \in 1..Len(text) : text[i] = Colon

\* spec.split(':'): the colon-delimited segments, one more than there are colons
RECURSIVE segments(_)
segments(text) ==
    IF ~HasColon(text) THEN <<text>>
    ELSE LET i == CHOOSE k \in 1..Len(text) :
                      text[k] = Colon /\ \A j \in 1..(k - 1) : text[j] # Colon
         IN <<SubSeq(text, 1, i - 1)>> \o segments(SubSeq(text, i + 1, Len(text)))

\* ':'.join(parts)
RECURSIVE rejoin(_)
rejoin(parts) ==
    IF parts = <<>> THEN <<>>
    ELSE IF Len(parts) = 1 THEN parts[1]
    ELSE parts[1] \o <<Colon>> \o rejoin(Tail(parts))

\* a loader that cuts at the first colon: the first segment is the path and
\* the segments after it, rejoined, are the class name
resolveSpec_first_colon(spec) ==
    [path |-> Head(segments(spec)), className |-> rejoin(Tail(segments(spec)))]

\* resolveSpec(spec) -> (path, className)
resolveSpec(spec) ==
    [path |-> rejoin(AllButLast(segments(spec))),
     className |-> segments(spec)[Len(segments(spec))]]

\* the loader is handed one specifier, no connection and no handler exist yet
LoaderInit ==
    /\ ReaderAtRest
    /\ handler_class = "none"
    /\ handler = Null
    /\ op = ""
    /\ arg \in {PyStr(t) : t \in SpecifiersUpTo(MaxSpecLen)}
    /\ ret = Returns(<<>>)
    /\ applied = ""

Call_resolveSpec ==
    /\ op = ""
    /\ op' = "resolveSpec"
    /\ ret' = Returns(resolveSpec(arg.str))
    /\ UNCHANGED <<handler_class, handler, arg, applied,
                   readerVars, serverVars, producerVars>>

LoaderNext == Call_resolveSpec

SpecLoader == LoaderInit /\ [][LoaderNext]_vars

\* resolveSpec has been called on a specifier that holds a colon
Resolved == op = "resolveSpec" /\ HasColon(arg.str)

\* C23: for every specifier holding at least one colon, the class name that
\* resolveSpec yields holds no colon (it is the text after the last one) and
\* path + ':' + className is the specifier again.
C23_SplitsAtLastColon ==
    Resolved =>
        /\ ret.exc = ""
        /\ ~HasColon(ret.val.className)
        /\ ret.val.path \o <<Colon>> \o ret.val.className = arg.str

\* C23 witness: 'C:h:hC' is resolved into the path 'C:h', which keeps the
\* colon of its drive letter, and the class 'hC'.
C23_Witness ==
    /\ Resolved
    /\ arg.str = <<Ch(67), Colon, Ch(104), Colon, Ch(104), Ch(67)>>
    /\ ret.val = [path |-> <<Ch(67), Colon, Ch(104)>>,
                  className |-> <<Ch(104), Ch(67)>>]

----------------------------------------------------------------------------
(* One call of rx_data_until_newline *)

\* the chunk the coming pass decodes
Chunk == utf8_decode(recv_chunk(conn_buf)).text

\* a pass of the loop that reads a chunk which decodes
ReadsChunk ==
    /\ rx_pc = "loop"
    /\ conn_buf # <<>>
    /\ conn_buf' = recv_rest(conn_buf)
    /\ wire' = wire
    /\ utf8_decode(recv_chunk(conn_buf)).ok

\* the messages the call hands back in this step
Returned == SubSeq(delivered', Len(delivered) + 1, Len(delivered'))

\* C24: a call starts from the incoming residual R; every chunk without a
\* newline is appended to it and the call goes on; the chunk that holds
\* k >= 1 newlines ends the call, which returns exactly k messages: first
\* R + c1 + ... + c(n-1) + the part of cn before its first newline, then the
\* segments between consecutive newlines of cn; the new residual is the part
\* of cn after its last newline, empty when cn ends with a newline.
C24_OneCall ==
    /\ [][(rx_pc = "idle" /\ rx_pc' = "loop") => accumulator' = <<data_accumulator>>]_vars
    /\ [][(ReadsChunk /\ NewlineCount(Chunk) = 0)
           => /\ rx_pc' = "loop"
              /\ accumulator' = <<accumulator[1] \o Chunk>>
              /\ UNCHANGED <<delivered, data_accumulator>>]_vars
    /\ [][(ReadsChunk /\ NewlineCount(Chunk) >= 1)
           => /\ rx_pc' = "idle"
              /\ Len(accumulator) = 1
              /\ Len(Returned) = NewlineCount(Chunk)
              /\ Returned = <<accumulator[1] \o Head(StreamMessages(Chunk))>>
                                \o Tail(StreamMessages(Chunk))
              /\ delivered' = delivered \o Returned
              /\ data_accumulator' = StreamTail(Chunk)
              /\ (Chunk[Len(Chunk)] = NL => data_accumulator' = <<>>)]_vars

\* C24 witness: of the stream '\naa\n\n' a first call returned [''], and the
\* last call returned the two messages 'aa' and '' with an empty residual.
C24_Witness ==
    /\ rx_pc = "idle"
    /\ stream = <<NL, Ch(97), Ch(97), NL, NL>>
    /\ delivered = << <<>>, <<Ch(97), Ch(97)>>, <<>> >>
    /\ accumulator = << <<Ch(97), Ch(97)>>, <<>>, <<>> >>
    /\ data_accumulator = <<>>

----------------------------------------------------------------------------
(* What the session loop hands to the handler *)

\* the for loop hands a packet to the handler
HandsPacket == pc = "packets" /\ <<pc, pending, op, arg, ret>>' # <<pc, pending, op, arg, ret>>

\* the messages of the session's stream that the handler has been given
Handled == Len(delivered) - Len(pending)

\* the read gives up: the time is over when the loop tests it
ReadTimesOut == pc = "rx_check" /\ timed_out(elapsed) /\ pc' # pc

\* C25: every string the session loop passes to handle_response or
\* response_handler is a complete newline-terminated message of the stream,
\* the next one in order; text without its newline is never among the
\* packets.  When the read times out the listener returns with the partial
\* text dropped: no handler call, no reply, the connection closed and
\* event_loop back at bind.
C25_OnlyCompleteMessages ==
    /\ [][HandsPacket
           => /\ op' \in {"handle_response", "response_handler"}
              /\ Handled + 1 <= Len(StreamMessages(stream))
              /\ arg' = PyStr(StreamMessages(stream)[Handled + 1])]_vars
    /\ [](InSession
           => /\ Len(delivered) <= Len(StreamMessages(stream))
              /\ delivered = SubSeq(StreamMessages(stream), 1, Len(delivered))
              /\ \A i \in 1..Len(pending) : pending[i] = delivered[Handled + i])
    /\ [][ReadTimesOut
           => /\ pc' = "bind"
              /\ conn' = "closed"
              /\ data_accumulator' = <<>>
              /\ accumulator' = <<>>
              /\ outbox' = <<>>
              /\ UNCHANGED handlerVars]_vars

\* C25 witness: the peer sent one frame and the beginning of a line; the
\* frame went to the handler and has its reply, the beginning of the line is
\* held by the reader, and the time of the read is over.
C25_Witness ==
    /\ pc = "rx_check"
    /\ timed_out(elapsed)
    /\ stream = PeerFrames(1) \o <<Ch(97)>>
    /\ delivered = <<AllButLast(PeerFrameLine(1))>>
    /\ arg = PyStr(delivered[1])
    /\ Len(outbox) = 1
    /\ accumulator = << <<Ch(97)>> >>

----------------------------------------------------------------------------
(* The analyzer connected to a server that replies to every message it     *)
(* receives: socketclient.py with its ResponseHandler or socketsink.py     *)
(* with response_handler.  stream is what the server has written so far.   *)

\* the messages the server has replied to: every reply is one line
Replied == Len(StreamMessages(stream))

\* the packet the server's listener gets from a message the analyzer sent
PacketOf(message) == PyStr(StreamMessages(utf8_decode(message).text)[1])

\* the server's reply to a packet: the handler after the call and the bytes
ServerReply(packet) ==
    IF handler_class = "socketclient.ResponseHandler"
    THEN handle_response(handler, packet)
    ELSE [self |-> handler, ret |-> Returns(response_handler(packet)), applied |-> ""]

PairedInit ==
    /\ program \in {"saleaesocketsource", "socketserver"}
    /\ check_for_response \in BOOLEAN
    /\ handler_class \in {"socketclient.ResponseHandler", "response_handler"}
    /\ handler = IF handler_class = "socketclient.ResponseHandler"
                 THEN ResponseHandler_init ELSE Null
    /\ conn = "open"
    /\ peer = "open"
    /\ sessions = 1
    /\ outbox = <<message_bytes(connected_message(program)),
                  message_bytes(control_message(check_for_response))>>
    /\ send_result = "ok"
    /\ stream = <<>>
    /\ wire = <<>>
    /\ missed_packets = 0
    /\ data_accumulator = <<>>
    /\ accumulator = <<>>
    /\ delivered = <<>>
    /\ conn_buf = <<>>
    /\ response = NoneStr
    /\ pc = "idle"
    /\ op = "__init__"
    /\ ret = Returns(Null)
    /\ arg = PyStr(<<>>)
    /\ applied = ""
    /\ rx_pc = "idle"
    /\ elapsed = 0
    /\ pending = <<>>

\* the server's for loop on the next message it received:
\* resp = handle_response(packet) (or response_handler(packet)); conn.sendall(resp)
remote_replies ==
    /\ peer = "open"
    /\ Replied < Len(outbox)
    /\ \E c \in {ServerReply(PacketOf(outbox[Replied + 1]))} :
        /\ c.ret.exc = ""
        /\ handler' = c.self
        /\ stream' = stream \o utf8_decode(c.ret.val).text
        /\ wire' = wire \o c.ret.val
    /\ UNCHANGED <<conn_buf, rx_pc, accumulator, data_accumulator, delivered>>
    /\ UNCHANGED <<handler_class, op, arg, ret, applied>>
    /\ UNCHANGED <<serverVars, producerVars>>

\* the replies reach the analyzer in pieces of up to RecvBufSize bytes or all
\* that is under way
remote_delivers ==
    /\ wire # <<>>
    /\ \E k \in {Len(wire)} \cup (1..MaxChunk) :
        /\ k <= Len(wire)
        /\ conn_buf' = conn_buf \o SubSeq(wire, 1, k)
        /\ wire' = SubSeq(wire, k + 1, Len(wire))
    /\ UNCHANGED <<stream, rx_pc, accumulator, data_accumulator, delivered>>
    /\ UNCHANGED <<handlerVars, serverVars, producerVars>>

PairedNext == decode_sends \/ decode_recv \/ remote_replies \/ remote_delivers

SpecPaired == PairedInit /\ [][PairedNext]_vars

\* decode's read returns and decode goes on with a response
TakesResponse == pc = "decode_rx" /\ pc' # "decode_rx"

\* text is a reply to the frame: a frame message with that frame's data
RepliesToFrame(text, frame) ==
    /\ json_loads(text).exc = ""
    /\ "type" \in DOMAIN json_loads(text).val
    /\ json_loads(text).val["type"] = "frame"
    /\ json_loads(text).val["data"]["data"] = scrub(frame.data)["data"]

\* C26: with response checking enabled and a server that replies to every
\* message, the response that decode consumes for a frame is the server's
\* reply to that frame, never the reply to an earlier frame or to one of the
\* two messages of __init__.
C26_ResponseAligned ==
    [][TakesResponse => RepliesToFrame(response', arg)]_vars

----------------------------------------------------------------------------
(* decode's wait for the response *)

\* decode waits for a response and the remote has closed the connection
WaitsOnClosed == pc = "decode_rx" /\ peer = "closed"

\* C27: a decode with response checking enabled always terminates: when the
\* remote has closed the connection while decode waits for the response, the
\* read returns or raises, and decode with it.
C27_DecodeTerminates == WaitsOnClosed ~> (pc # "decode_rx")

----------------------------------------------------------------------------
(* What decode's read returns *)

\* rx_data_until_newline returns to decode: decode is past its read, and not
\* by an error of recv or of the chunk's decoding
RxReturns ==
    /\ pc = "decode_rx"
    /\ pc' # "decode_rx"
    /\ ret'.exc \notin {"UnicodeDecodeError", "ConnectionResetError"}

\* a step of a decode call: its send, or a step of its read
InDecode == DecodeStep \/ pc = "decode_rx"

\* C28: whenever rx_data_until_newline returns, the list of messages it
\* returns holds at least one message, so the response decode goes on with
\* (the only one, or response[-1]) is defined and is the last message
\* returned; and no step of a decode call decreases missed_packets.
C28_ReadReturnsAMessage ==
    /\ [][RxReturns
           => /\ Len(accumulator') >= 2
              /\ Len(delivered') >= Len(delivered) + 1
              /\ response' # NoneStr
              /\ response' = delivered'[Len(delivered')]]_vars
    /\ [][InDecode => missed_packets' >= missed_packets]_vars

\* C28 witness: a first read returned two messages, one of which was missed;
\* the second decode's read returned one more message, which is the response,
\* and the count is still 1.
C28_Witness ==
    /\ op = "decode"
    /\ pc \in {"idle", "raised"}
    /\ Len(outbox) = 4
    /\ Len(delivered) = 3
    /\ missed_packets = 1
    /\ response = delivered[3]
    /\ Len(accumulator) = 2

----------------------------------------------------------------------------
(* The handshake of __init__ *)

\* the i-th message sent on the connection, as the server parses it
Sent(i) == ReplyMessage(outbox[i]).val

\* the run is started again: __init__ of a new analyzer (the remote's steps
\* change one of stream, wire, sessions, or end the connection)
InitStep ==
    /\ pc \in {"idle", "raised"}
    /\ op' = "__init__"
    /\ UNCHANGED <<stream, wire, sessions>>
    /\ peer' # peer => (peer = "listening" /\ peer' = "open")

====
